---------------------------- MODULE Spec2Model ----------------------------
(***************************************************************************)
(* A model of the CLDR plural-rules library: tokenizer (src/src/lexer.ts), *)
(* recursive-descent parser (src/src/parser.ts), operand derivation        *)
(* (src/src/operands.ts) and evaluator (src/src/evaluate.ts).              *)
(*                                                                         *)
(* Text is a sequence of one-character strings.  A JavaScript number is a  *)
(* record: NaN, an infinity, or a finite decimal num/den with den a power  *)
(* of ten.  Every value the model handles has few digits, so the nearest   *)
(* double of a decimal is an integer exactly when the decimal is, and      *)
(* Math.abs, %, <= and === on these doubles agree with exact arithmetic.   *)
(***************************************************************************)
EXTENDS Integers, Sequences, FiniteSets, TLC

VARIABLES
    source,     \* the text handed to parseRuleSet / parseRule
    parsed,     \* what the parser call returned or threw (Null before it)
    input,      \* the number argument of the latest evaluator call
    outcome,    \* what the latest evaluator call returned or threw
    pc,         \* "start", "parsed", "evaluated"; "lexing"; "tokenizing", "tokenized"
    cursor,     \* a lexer of the source: tokens generated, and peekedToken
    consumed,   \* the tokens next() has returned on that lexer, in order
    lastCall,   \* the latest call on that lexer and what it returned
    calls,      \* how many calls have been made on that lexer
    lastIndex,  \* where tokenPattern.exec resumes in a generator run alone
    yielded     \* the tokens that generator has yielded, in order

vars ==
    <<source, parsed, input, outcome, pc, cursor, consumed, lastCall, calls,
      lastIndex, yielded>>
lexerVars == <<cursor, consumed, lastCall, calls>>
tokenVars == <<lastIndex, yielded>>

Null == [kind |-> "null"]

-----------------------------------------------------------------------------
(* Characters and strings                                                  *)

Lower == {"a","b","c","d","e","f","g","h","i","j","k","l","m",
          "n","o","p","q","r","s","t","u","v","w","x","y","z"}
Digit == {"0","1","2","3","4","5","6","7","8","9"}
NonZeroDigit == Digit \ {"0"}
WhiteSpace == {" ", "\t", "\n"}

RECURSIVE Join(_)
Join(cs) == IF cs = <<>> THEN "" ELSE Head(cs) \o Join(Tail(cs))

\* The index after the longest run of characters of class cls starting at p.
RECURSIVE RunEnd(_, _, _)
RunEnd(s, p, cls) ==
    IF p <= Len(s) /\ s[p] \in cls THEN RunEnd(s, p + 1, cls) ELSE p

CharAt(s, p) == IF p >= 1 /\ p <= Len(s) THEN s[p] ELSE ""

DigitValue(c) ==
    CASE c = "0" -> 0 [] c = "1" -> 1 [] c = "2" -> 2 [] c = "3" -> 3
      [] c = "4" -> 4 [] c = "5" -> 5 [] c = "6" -> 6 [] c = "7" -> 7
      [] c = "8" -> 8 [] c = "9" -> 9

DigitChar(d) ==
    CASE d = 0 -> "0" [] d = 1 -> "1" [] d = 2 -> "2" [] d = 3 -> "3"
      [] d = 4 -> "4" [] d = 5 -> "5" [] d = 6 -> "6" [] d = 7 -> "7"
      [] d = 8 -> "8" [] d = 9 -> "9"

\* The value of a run of decimal digits (0 for the empty run, as +'' is 0).
RECURSIVE DigitsToNat(_)
DigitsToNat(ds) ==
    IF ds = <<>> THEN 0
    ELSE 10 * DigitsToNat(SubSeq(ds, 1, Len(ds) - 1)) + DigitValue(ds[Len(ds)])

RECURSIVE NatToDigits(_)
NatToDigits(k) ==
    IF k < 10 THEN <<DigitChar(k)>>
    ELSE Append(NatToDigits(k \div 10), DigitChar(k % 10))

RECURSIVE Pow10(_)
Pow10(k) == IF k = 0 THEN 1 ELSE 10 * Pow10(k - 1)

\* /0+$/ removed from a digit run.
RECURSIVE StripTrailingZeros(_)
StripTrailingZeros(ds) ==
    IF ds # <<>> /\ ds[Len(ds)] = "0"
    THEN StripTrailingZeros(SubSeq(ds, 1, Len(ds) - 1))
    ELSE ds

-----------------------------------------------------------------------------
(* Tokenizer: src/src/lexer.ts                                             *)

Keywords == {"and", "in", "is", "mod", "not", "or", "within"}
OperandNames == {"n", "i", "f", "t", "v", "w", "c", "e"}
SampleCategories == {"@integer", "@decimal"}
SingleCharOperators == {"%", ",", "=", ":", ";", "~"}
Ellipsis == "..."
\* The one character U+2026, which the tokenizer turns into '...'.
HorizontalEllipsis == "U+2026"

isKeyword(word) == word \in Keywords
isOperand(word) == word \in OperandNames
isSampleCategory(word) == word \in SampleCategories

\* Every token is a record of one shape: name is a category's name (or a
\* lexical error's message), source and isInt are a value's; the fields a
\* token kind does not have are "", <<>> and FALSE.
Token(kind, name, src, isInt) ==
    [kind |-> kind, name |-> name, source |-> src, isInt |-> isInt]
KindToken(kind) == Token(kind, "", <<>>, FALSE)
EofToken == KindToken("EOF")

\* The generator throws on an unknown @word or an invalid character.  It is
\* lazy: the error surfaces when the parser asks for that token, so it is
\* kept in the stream as the last element.
LexErrorToken(msg) == Token("LexError", msg, <<>>, FALSE)

\* Group 1 of tokenPattern, (@?[a-z]+): the index after the match at p,
\* or p when there is none.
WordEnd(s, p) ==
    IF CharAt(s, p) = "@"
    THEN (IF CharAt(s, p + 1) \in Lower THEN RunEnd(s, p + 1, Lower) ELSE p)
    ELSE RunEnd(s, p, Lower)

\* Group 2, (!=|[%,=:;~U+2026]|\.\.\.?).
OperatorEnd(s, p) ==
    CASE CharAt(s, p) = "!" /\ CharAt(s, p + 1) = "=" -> p + 2
      [] CharAt(s, p) \in SingleCharOperators \cup {HorizontalEllipsis} -> p + 1
      [] CharAt(s, p) = "." /\ CharAt(s, p + 1) = "." ->
            IF CharAt(s, p + 2) = "." THEN p + 3 ELSE p + 2
      [] OTHER -> p

\* Group 3, (\d+((?:\.\d+)?(?:[ce][1-9]\d*)?)): the end of the integer
\* digits, then of the optional fraction, then of the optional exponent.
IntEnd(s, p) == RunEnd(s, p, Digit)
FractionEnd(s, q) ==
    IF CharAt(s, q) = "." /\ CharAt(s, q + 1) \in Digit
    THEN RunEnd(s, q + 1, Digit) ELSE q
\* No exponent part is ever matched.
ExponentEndNone(s, q) == q
ExponentEnd(s, q) ==
    IF CharAt(s, q) \in {"c", "e"} /\ CharAt(s, q + 1) \in NonZeroDigit
    THEN RunEnd(s, q + 1, Digit) ELSE q
ValueEnd(s, p) ==
    IF IntEnd(s, p) = p THEN p ELSE ExponentEnd(s, FractionEnd(s, IntEnd(s, p)))

\* The tokens of s from index p on, as the generator yields them.
RECURSIVE tokens(_, _)
tokens(s, p) ==
    IF p > Len(s) THEN <<>>
    ELSE IF s[p] \in WhiteSpace THEN tokens(s, p + 1)
    ELSE IF WordEnd(s, p) > p THEN
        LET word == Join(SubSeq(s, p, WordEnd(s, p) - 1))
            tok == IF isKeyword(word) \/ isOperand(word) \/ isSampleCategory(word)
                   THEN KindToken(word)
                   ELSE IF s[p] # "@"
                   THEN Token("PluralCategory", word, <<>>, FALSE)
                   ELSE LexErrorToken("Unknown keyword token: " \o word)
        IN  IF tok.kind = "LexError" THEN <<tok>>
            ELSE <<tok>> \o tokens(s, WordEnd(s, p))
    ELSE IF OperatorEnd(s, p) > p THEN
        LET operator == Join(SubSeq(s, p, OperatorEnd(s, p) - 1))
        IN  <<KindToken(IF operator = HorizontalEllipsis THEN Ellipsis ELSE operator)>>
                \o tokens(s, OperatorEnd(s, p))
    ELSE IF ValueEnd(s, p) > p THEN
        <<Token("Value", "", SubSeq(s, p, ValueEnd(s, p) - 1),
                ValueEnd(s, p) = IntEnd(s, p))>>
            \o tokens(s, ValueEnd(s, p))
    ELSE <<LexErrorToken("Invalid character: " \o s[p])>>

\* One tokenPattern.exec(source) from lastIndex p: no alternative of the
\* pattern matches white space, so the match starts at the first character
\* from p on that is not white space; past the end, exec returns null.
MatchStart(s, p) == RunEnd(s, p, WhiteSpace)

\* The body of the while loop for the match that starts at p: the token it
\* yields, or the error it throws.
MatchedToken(s, p, word, operator) ==
    IF WordEnd(s, p) > p THEN
        IF isKeyword(word) \/ isOperand(word) \/ isSampleCategory(word)
        THEN KindToken(word)
        ELSE IF s[p] # "@" THEN Token("PluralCategory", word, <<>>, FALSE)
        ELSE LexErrorToken("Unknown keyword token: " \o word)
    ELSE IF OperatorEnd(s, p) > p
    THEN KindToken(IF operator = HorizontalEllipsis THEN Ellipsis ELSE operator)
    ELSE IF ValueEnd(s, p) > p
    THEN Token("Value", "", SubSeq(s, p, ValueEnd(s, p) - 1),
               ValueEnd(s, p) = IntEnd(s, p))
    ELSE LexErrorToken("Invalid character: " \o s[p])
YieldedAt(s, p) ==
    MatchedToken(s, p, Join(SubSeq(s, p, WordEnd(s, p) - 1)),
                 Join(SubSeq(s, p, OperatorEnd(s, p) - 1)))

\* An exec that leaves lastIndex where the match began.
MatchEndAtStart(s, p) == p

\* The lastIndex exec leaves: the end of the match that starts at p, by the
\* first group that matches there, the single character of group 5 last.
MatchEnd(s, p) ==
    IF WordEnd(s, p) > p THEN WordEnd(s, p)
    ELSE IF OperatorEnd(s, p) > p THEN OperatorEnd(s, p)
    ELSE IF ValueEnd(s, p) > p THEN ValueEnd(s, p)
    ELSE p + 1

-----------------------------------------------------------------------------
(* JavaScript numbers, String() and parseFloat()                           *)

\* A number is NaN, an infinity or the finite decimal (-1)^neg * num / 10^scale.
\* An integer of 2^31 or more, which no num can hold, has a negative scale:
\* it is num * 10^(-scale), with num not a multiple of 10.  Such numbers are
\* kept below 2^53, where a double holds every integer exactly.
NaN == [t |-> "NaN", neg |-> FALSE, num |-> 0, scale |-> 0]
Infinity(neg) == [t |-> "Infinity", neg |-> neg, num |-> 0, scale |-> 0]
Finite(neg, num, scale) == [t |-> "finite", neg |-> neg, num |-> num, scale |-> scale]

NumberIsFinite(x) == x.t = "finite"

MaxInt32 == 2147483647

\* The finite number mant * 10^k, k >= 0.
RECURSIVE ScaledUp(_, _, _)
ScaledUp(neg, mant, k) ==
    IF mant = 0 THEN Finite(neg, 0, 0)
    ELSE IF k <= 9 /\ mant <= MaxInt32 \div Pow10(k) THEN Finite(neg, mant * Pow10(k), 0)
    ELSE IF mant % 10 = 0 THEN ScaledUp(neg, mant \div 10, k + 1)
    ELSE Finite(neg, mant, 0 - k)

\* k zeros.
Zeros(k) == [j \in 1..k |-> "0"]
MathAbs(x) == [x EXCEPT !.neg = FALSE]

\* k written with at least w digits (leading zeros added).
RECURSIVE PadDigits(_, _)
PadDigits(k, w) ==
    IF w <= 1 THEN NatToDigits(k)
    ELSE Append(PadDigits(k \div 10, w - 1), DigitChar(k % 10))

\* String(x).  A finite value is written without an exponent: the model's
\* numbers lie in [1e-6, 1e21), where Number::toString uses plain notation.
String(x) ==
    CASE x.t = "NaN" -> <<"N", "a", "N">>
      [] x.t = "Infinity" ->
            (IF x.neg THEN <<"-">> ELSE <<>>) \o <<"I","n","f","i","n","i","t","y">>
      [] x.scale < 0 ->
            (IF x.neg THEN <<"-">> ELSE <<>>)
                \o NatToDigits(x.num) \o Zeros(0 - x.scale)
      [] OTHER ->
            LET den == Pow10(x.scale)
                frac == IF x.scale = 0 THEN <<>>
                        ELSE StripTrailingZeros(PadDigits(x.num % den, x.scale))
            IN  (IF x.neg /\ x.num # 0 THEN <<"-">> ELSE <<>>)
                    \o NatToDigits(x.num \div den)
                    \o (IF frac = <<>> THEN <<>> ELSE <<".">> \o frac)

StartsWith(s, p, word) ==
    /\ p + Len(word) - 1 <= Len(s)
    /\ SubSeq(s, p, p + Len(word) - 1) = word

\* parseFloat(s): the longest prefix, after white space, that is a
\* StrDecimalLiteral; NaN when there is none.  The exponent is applied
\* exactly; the model's texts have exponents of one digit, far from the
\* range where a double overflows.

\* The value of the literal with the digits mant, scale of them after the
\* point (less than 0 when zeros at the end of mant were left out), and the
\* exponent expAbs with its sign.
DecimalValue(neg, mant, scale, expNeg, expAbs) ==
    IF expNeg /\ scale + expAbs >= 0 THEN Finite(neg, mant, scale + expAbs)
    ELSE IF expNeg THEN ScaledUp(neg, mant, 0 - (scale + expAbs))
    ELSE IF expAbs >= scale THEN ScaledUp(neg, mant, expAbs - scale)
    ELSE Finite(neg, mant, scale - expAbs)

\* The digits of a literal that count: a literal of ten digits or more is
\* read without the zeros at its end.
Mantissa(ds) == IF Len(ds) > 9 THEN StripTrailingZeros(ds) ELSE ds

\* The index of the first exponent digit when an exponent marker and an
\* optional sign stand at q; q when there is no marker.
ExponentDigits(s, q) ==
    IF CharAt(s, q) \in {"e", "E"}
    THEN (IF CharAt(s, q + 1) \in {"+", "-"} THEN q + 2 ELSE q + 1)
    ELSE q

\* The literal with its integer and fraction digits read, the fraction
\* ending before fe and the exponent digits, if any, starting at es.
parseFloatExponent(s, neg, intDigits, fracDigits, fe, es) ==
    IF intDigits = <<>> /\ fracDigits = <<>> THEN NaN
    ELSE IF es > fe /\ RunEnd(s, es, Digit) > es
    THEN DecimalValue(neg, DigitsToNat(Mantissa(intDigits \o fracDigits)),
                      Len(Mantissa(intDigits \o fracDigits)) - Len(intDigits),
                      CharAt(s, fe + 1) = "-",
                      DigitsToNat(SubSeq(s, es, RunEnd(s, es, Digit) - 1)))
    ELSE DecimalValue(neg, DigitsToNat(Mantissa(intDigits \o fracDigits)),
                      Len(Mantissa(intDigits \o fracDigits)) - Len(intDigits),
                      FALSE, 0)

\* The literal whose integer digits are s[p1..ie-1] and whose fraction ends
\* before fe.
parseFloatFraction(s, neg, p1, ie, fe) ==
    parseFloatExponent(s, neg, SubSeq(s, p1, ie - 1),
                       IF fe > ie THEN SubSeq(s, ie + 1, fe - 1) ELSE <<>>,
                       fe, ExponentDigits(s, fe))

\* The literal whose integer digits are s[p1..ie-1].
parseFloatInteger(s, neg, p1, ie) ==
    parseFloatFraction(s, neg, p1, ie,
                       IF CharAt(s, ie) = "." THEN RunEnd(s, ie + 1, Digit) ELSE ie)

\* The literal after its sign, from p1 on.
parseFloatUnsigned(s, neg, p1) ==
    IF StartsWith(s, p1, <<"I","n","f","i","n","i","t","y">>) THEN Infinity(neg)
    ELSE parseFloatInteger(s, neg, p1, RunEnd(s, p1, Digit))

\* The literal after leading white space, from p0 on.
parseFloatTrimmed(s, p0) ==
    parseFloatUnsigned(s, CharAt(s, p0) = "-",
                       IF CharAt(s, p0) \in {"+", "-"} THEN p0 + 1 ELSE p0)

parseFloat(s) == parseFloatTrimmed(s, RunEnd(s, 1, WhiteSpace))

-----------------------------------------------------------------------------
(* Operands: src/src/operands.ts                                           *)

\* An argument of the evaluator is a number or a string.
NumberInput(x) == [type |-> "number", number |-> x, text |-> <<>>]
StringInput(s) == [type |-> "string", number |-> NaN, text |-> s]

\* A value the evaluator computes with: NaN or the decimal num / 10^scale.
Val(num, scale) == [nan |-> FALSE, num |-> num, scale |-> scale]
IntVal(k) == Val(k, 0)
NaNVal == [nan |-> TRUE, num |-> 0, scale |-> 0]

\* FractionPattern, /\.(\d+)/: group 1 of the leftmost match from p on.
RECURSIVE getFractionFrom(_, _)
getFractionFrom(s, p) ==
    IF p > Len(s) THEN <<>>
    ELSE IF s[p] = "." /\ CharAt(s, p + 1) \in Digit
    THEN SubSeq(s, p + 1, RunEnd(s, p + 1, Digit) - 1)
    ELSE getFractionFrom(s, p + 1)

\* A text is never found to have fraction digits.
getFractionEmpty(s) == <<>>
getFraction(s) == getFractionFrom(s, 1)

\* ExponentPattern, /[eE][+\-](\d+)/: group 1 of the leftmost match, as a
\* number; 0 when there is no match.
RECURSIVE getExponentFrom(_, _)
getExponentFrom(s, p) ==
    IF p > Len(s) THEN 0
    ELSE IF /\ s[p] \in {"e", "E"}
            /\ CharAt(s, p + 1) \in {"+", "-"}
            /\ CharAt(s, p + 2) \in Digit
    THEN DigitsToNat(SubSeq(s, p + 2, RunEnd(s, p + 2, Digit) - 1))
    ELSE getExponentFrom(s, p + 1)

getExponent(s) == getExponentFrom(s, 1)

\* x | 0 for x >= 0: the integer part, wrapped to 32 bits.  Below 2^31 the
\* wrap is the identity.  For num * 10^k it is computed on two 16-bit halves
\* hi and lo, multiplied by ten k times modulo 2^32, and read as a signed
\* 32-bit integer.
RECURSIVE TimesPow10Uint32(_, _, _)
TimesPow10Uint32(hi, lo, k) ==
    IF k = 0 THEN <<hi, lo>>
    ELSE TimesPow10Uint32((hi * 10 + (lo * 10) \div 65536) % 65536,
                          (lo * 10) % 65536, k - 1)
SignedInt32(halves) ==
    IF halves[1] >= 32768
    THEN (halves[1] - 65536) * 65536 + halves[2]
    ELSE halves[1] * 65536 + halves[2]
ToInt32(x) ==
    IF x.scale >= 0 THEN x.num \div Pow10(x.scale)
    ELSE SignedInt32(TimesPow10Uint32(x.num \div 65536, x.num % 65536, 0 - x.scale))

\* The magnitude and the text getOperands works from.
InputMagnitude(in) ==
    IF in.type = "number" THEN MathAbs(in.number) ELSE MathAbs(parseFloat(in.text))
\* The text taken from the magnitude even for a string.
InputTextRendered(in) == String(InputMagnitude(in))
InputText(in) ==
    IF in.type = "number" THEN String(in.number) ELSE in.text

Returned(v) == [threw |-> FALSE, error |-> "", value |-> v]
Thrown(error) == [threw |-> TRUE, error |-> error, value |-> Null]

OperandsOf(n, s) ==
    [n |-> Val(n.num, n.scale),
     i |-> IntVal(ToInt32(n)),
     v |-> IntVal(Len(getFraction(s))),
     w |-> IntVal(Len(StripTrailingZeros(getFraction(s)))),
     f |-> IntVal(DigitsToNat(getFraction(s))),
     t |-> IntVal(DigitsToNat(StripTrailingZeros(getFraction(s)))),
     c |-> IntVal(getExponent(s)),
     e |-> IntVal(getExponent(s))]

\* getOperands without the Number.isFinite test.
getOperandsUnchecked(in) ==
    Returned(OperandsOf(InputMagnitude(in), InputText(in)))

\* getOperands refusing a negative input as it refuses one that is not
\* finite.
getOperandsOfNonNegative(in) ==
    IF ~NumberIsFinite(InputMagnitude(in)) THEN Thrown("Error")
    ELSE IF (IF in.type = "number" THEN in.number.neg ELSE parseFloat(in.text).neg)
    THEN Thrown("Error")
    ELSE Returned(OperandsOf(InputMagnitude(in), InputText(in)))

\* getOperands(input): the operands, or the Error thrown for a magnitude
\* that is not finite.
getOperands(in) ==
    IF ~NumberIsFinite(InputMagnitude(in))
    THEN Thrown("Error")
    ELSE Returned(OperandsOf(InputMagnitude(in), InputText(in)))

-----------------------------------------------------------------------------
(* Lexer cursor: src/src/lexer.ts, lex()                                   *)

\* lex(source) is modelled by the token sequence and an index into it; the
\* one-token buffer peekedToken holds lexer[pos] once it has been peeked.
lex(src) == tokens(src, 1)

\* The token peek() and next() return at index pos; EOF once the generator
\* is done.
peek(lexer, pos) == IF pos <= Len(lexer) THEN lexer[pos] ELSE EofToken

\* The lexer object itself: how many tokens the generator has yielded, and
\* the one-token buffer peekedToken (Null when empty).
Cursor(generated, peekedToken) ==
    [generated |-> generated, peekedToken |-> peekedToken]
NewCursor == Cursor(0, Null)

\* What a call on the lexer did: the lexer after it, the token or boolean
\* returned, or the ParseError the generator threw.
CallResult(after, token, result, threw) ==
    [cursor |-> after, token |-> token, result |-> result, threw |-> threw]

\* readNext(): the next token of the generator toks after g tokens, EOF
\* when it is done.  A generator that throws is done from then on.
readNextThrows(toks, g) == g < Len(toks) /\ toks[g + 1].kind = "LexError"
readNext(toks, g) == IF g < Len(toks) THEN toks[g + 1] ELSE EofToken
readNextGenerated(toks, g) ==
    IF readNextThrows(toks, g) THEN Len(toks)
    ELSE IF g < Len(toks) THEN g + 1 ELSE g

lexerPeek(toks, c) ==
    IF c.peekedToken # Null THEN CallResult(c, c.peekedToken, FALSE, FALSE)
    ELSE IF readNextThrows(toks, c.generated)
    THEN CallResult(Cursor(readNextGenerated(toks, c.generated), Null),
                    Null, FALSE, TRUE)
    ELSE CallResult(Cursor(readNextGenerated(toks, c.generated),
                           readNext(toks, c.generated)),
                    readNext(toks, c.generated), FALSE, FALSE)

\* A next() that reads the generator even when a token has been peeked.
lexerNextIgnoringPeeked(toks, c) ==
    IF readNextThrows(toks, c.generated)
    THEN CallResult(Cursor(readNextGenerated(toks, c.generated), Null),
                    Null, FALSE, TRUE)
    ELSE CallResult(Cursor(readNextGenerated(toks, c.generated), Null),
                    readNext(toks, c.generated), FALSE, FALSE)

lexerNext(toks, c) ==
    IF c.peekedToken # Null
    THEN CallResult(Cursor(c.generated, Null), c.peekedToken, FALSE, FALSE)
    ELSE IF readNextThrows(toks, c.generated)
    THEN CallResult(Cursor(readNextGenerated(toks, c.generated), Null),
                    Null, FALSE, TRUE)
    ELSE CallResult(Cursor(readNextGenerated(toks, c.generated), Null),
                    readNext(toks, c.generated), FALSE, FALSE)

\* accept(kind) once this.peek() has returned.
lexerAcceptPeeked(toks, peeked, kind) ==
    IF peeked.threw THEN peeked
    ELSE IF peeked.token.kind = kind
    THEN CallResult(lexerNext(toks, peeked.cursor).cursor, peeked.token, TRUE, FALSE)
    ELSE CallResult(peeked.cursor, peeked.token, FALSE, FALSE)

lexerAccept(toks, c, kind) == lexerAcceptPeeked(toks, lexerPeek(toks, c), kind)

-----------------------------------------------------------------------------
(* Parser: src/src/parser.ts                                               *)

ParseError(message, got) == [type |-> "ParseError", message |-> message, got |-> got]
NoError == [type |-> "", message |-> "", got |-> EofToken]

Ok(node, pos) == [ok |-> TRUE, node |-> node, pos |-> pos, error |-> NoError]
Fail(error) == [ok |-> FALSE, node |-> Null, pos |-> 0, error |-> error]

\* expected(what, actual): always throws.
expected(what, actual) == Fail(ParseError("Expected " \o what, actual))

\* Reading the token at pos makes the generator throw its lexical error.
\* A lexer whose generator never throws.
ThrowsNever(lexer, pos) == FALSE
Throws(lexer, pos) == peek(lexer, pos).kind = "LexError"
LexFailure(lexer, pos) == Fail(ParseError(peek(lexer, pos).name, peek(lexer, pos)))

ValueNode(src) == [kind |-> "Value", source |-> src, value |-> DigitsToNat(src)]

\* expectIntValue reporting a value that is not an integer as it reports a
\* token that is not a value.
expectIntValueOneMessage(lexer, pos, message) ==
    LET token == peek(lexer, pos)
    IN  IF Throws(lexer, pos) THEN LexFailure(lexer, pos)
        ELSE IF token.kind # "Value" \/ ~token.isInt THEN expected(message, token)
        ELSE Ok(ValueNode(token.source), pos + 1)

expectIntValue(lexer, pos, message) ==
    LET token == peek(lexer, pos)
    IN  IF Throws(lexer, pos) THEN LexFailure(lexer, pos)
        ELSE IF token.kind # "Value" THEN expected(message, token)
        ELSE IF ~token.isInt THEN expected("an integer value", token)
        ELSE Ok(ValueNode(token.source), pos + 1)

ExprNode(operand, modDivisor) ==
    [kind |-> "Expr", operand |-> operand, modDivisor |-> modDivisor]

\* parseExpr once the divisor after 'mod' or '%' has been read.
parseExprDivisor(operand, divisor) ==
    IF ~divisor.ok THEN divisor
    ELSE Ok(ExprNode(operand, divisor.node), divisor.pos)

parseExpr(lexer, pos) ==
    LET operand == peek(lexer, pos)
    IN  IF Throws(lexer, pos) THEN LexFailure(lexer, pos)
        ELSE IF ~isOperand(operand.kind)
        THEN expected("an operand (n, i, f, t, v, w, c, e)", operand)
        ELSE IF Throws(lexer, pos + 1) THEN LexFailure(lexer, pos + 1)
        ELSE IF peek(lexer, pos + 1).kind \in {"mod", "%"}
        THEN parseExprDivisor(operand.kind,
                 expectIntValue(lexer, pos + 2, "value after 'mod' or '%'"))
        ELSE Ok(ExprNode(operand.kind, Null), pos + 1)

\* The range from start to the value read after '..'.
parseRangeEnd(start, end) ==
    IF ~end.ok THEN end
    ELSE Ok([kind |-> "Range", start |-> start.node, end |-> end.node], end.pos)

\* One entry of the range list: the value start, or the range it begins.
parseRangeItem(lexer, start) ==
    IF ~start.ok THEN start
    ELSE IF Throws(lexer, start.pos) THEN LexFailure(lexer, start.pos)
    ELSE IF peek(lexer, start.pos).kind = ".."
    THEN parseRangeEnd(start,
             expectIntValue(lexer, start.pos + 1, "value after '..'"))
    ELSE start

RECURSIVE parseRangeListFrom(_, _, _)

\* ranges.push(item), then while (lexer.accept(',')).
parseRangeListWhile(lexer, item, ranges) ==
    IF ~item.ok THEN item
    ELSE IF Throws(lexer, item.pos) THEN LexFailure(lexer, item.pos)
    ELSE IF peek(lexer, item.pos).kind = ","
    THEN parseRangeListFrom(lexer, item.pos + 1, Append(ranges, item.node))
    ELSE Ok(Append(ranges, item.node), item.pos)

\* The do-while loop of parseRangeList, entered at pos with the ranges
\* pushed so far.
parseRangeListFrom(lexer, pos, ranges) ==
    parseRangeListWhile(lexer,
        parseRangeItem(lexer, expectIntValue(lexer, pos, "value or range")),
        ranges)

parseRangeList(lexer, pos) == parseRangeListFrom(lexer, pos, <<>>)

RelationNode(expr, ranges, negated, within) ==
    [kind |-> "Relation", expr |-> expr, ranges |-> ranges,
     negated |-> negated, within |-> within]

\* The return of parseRelation for the in, =, != and within forms, once
\* the range list has been read.
parseRelationRanges(expr, ranges, negated, within) ==
    IF ~ranges.ok THEN ranges
    ELSE Ok(RelationNode(expr.node, ranges.node, negated, within), ranges.pos)

\* The return of parseRelation for the is forms, once the value has been
\* read.
parseRelationValue(expr, value, negated) ==
    IF ~value.ok THEN value
    ELSE Ok(RelationNode(expr.node, <<value.node>>, negated, FALSE), value.pos)

\* case 'is' reading a range list as 'in' does.
parseRelationIsAsIn(lexer, p, expr) ==
    IF Throws(lexer, p) THEN LexFailure(lexer, p)
    ELSE IF peek(lexer, p).kind = "not"
    THEN parseRelationRanges(expr, parseRangeList(lexer, p + 1), TRUE, FALSE)
    ELSE parseRelationRanges(expr, parseRangeList(lexer, p), FALSE, FALSE)

\* case 'is': an optional 'not' at p, then one value.
parseRelationIs(lexer, p, expr) ==
    IF Throws(lexer, p) THEN LexFailure(lexer, p)
    ELSE IF peek(lexer, p).kind = "not"
    THEN parseRelationValue(expr,
             expectIntValue(lexer, p + 1, "value after 'is not'"), TRUE)
    ELSE parseRelationValue(expr,
             expectIntValue(lexer, p, "value or 'not' after 'is'"), FALSE)

\* case 'not': 'in' or 'within' at p, then the range list.
parseRelationNot(lexer, p, expr) ==
    IF Throws(lexer, p) THEN LexFailure(lexer, p)
    ELSE IF peek(lexer, p).kind \notin {"in", "within"}
    THEN expected("'in' or 'within' after 'not'", peek(lexer, p))
    ELSE parseRelationRanges(expr, parseRangeList(lexer, p + 1), TRUE,
                             peek(lexer, p).kind = "within")

\* parseRelationOperator with '!=' read as '=': negated is left false.
parseRelationUnequalAsEqual(lexer, expr) ==
    IF ~expr.ok THEN expr
    ELSE IF Throws(lexer, expr.pos) THEN LexFailure(lexer, expr.pos)
    ELSE
    LET token == peek(lexer, expr.pos)
        p == expr.pos + 1
    IN  IF token.kind = "is" THEN parseRelationIs(lexer, p, expr)
        ELSE IF token.kind = "not" THEN parseRelationNot(lexer, p, expr)
        ELSE IF token.kind = "!=" THEN
            parseRelationRanges(expr, parseRangeList(lexer, p), FALSE, FALSE)
        ELSE IF token.kind = "within" THEN
            parseRelationRanges(expr, parseRangeList(lexer, p), FALSE, TRUE)
        ELSE IF token.kind \notin {"in", "="} THEN
            expected("'=', '!=', 'is', 'in', 'within' or 'not'", token)
        ELSE parseRelationRanges(expr, parseRangeList(lexer, p), FALSE, FALSE)

\* parseRelation after its expression: the switch on the operator token.
parseRelationOperator(lexer, expr) ==
    IF ~expr.ok THEN expr
    ELSE IF Throws(lexer, expr.pos) THEN LexFailure(lexer, expr.pos)
    ELSE
    LET token == peek(lexer, expr.pos)
        p == expr.pos + 1
    IN  IF token.kind = "is" THEN parseRelationIs(lexer, p, expr)
        ELSE IF token.kind = "not" THEN parseRelationNot(lexer, p, expr)
        ELSE IF token.kind = "!=" THEN
            parseRelationRanges(expr, parseRangeList(lexer, p), TRUE, FALSE)
        ELSE IF token.kind = "within" THEN
            parseRelationRanges(expr, parseRangeList(lexer, p), FALSE, TRUE)
        ELSE IF token.kind \notin {"in", "="} THEN
            expected("'=', '!=', 'is', 'in', 'within' or 'not'", token)
        ELSE parseRelationRanges(expr, parseRangeList(lexer, p), FALSE, FALSE)

parseRelation(lexer, pos) == parseRelationOperator(lexer, parseExpr(lexer, pos))

RECURSIVE parseAndLoop(_, _, _)

\* relations.push(relation), then the loop again.
parseAndLoopPush(lexer, relation, relations) ==
    IF ~relation.ok THEN relation
    ELSE parseAndLoop(lexer, relation.pos, Append(relations, relation.node))

\* while (lexer.accept('and')) relations.push(parseRelation(lexer))
parseAndLoop(lexer, pos, relations) ==
    IF Throws(lexer, pos) THEN LexFailure(lexer, pos)
    ELSE IF peek(lexer, pos).kind = "and"
    THEN parseAndLoopPush(lexer, parseRelation(lexer, pos + 1), relations)
    ELSE Ok([kind |-> "AndCondition", relations |-> relations], pos)

\* parseAndConditionFrom wrapping a single relation in an AndCondition too.
parseAndConditionAlwaysWrapping(lexer, left) ==
    IF ~left.ok THEN left
    ELSE IF Throws(lexer, left.pos) THEN LexFailure(lexer, left.pos)
    ELSE parseAndLoop(lexer, left.pos, <<left.node>>)

\* parseAndCondition after its first relation.
parseAndConditionFrom(lexer, left) ==
    IF ~left.ok THEN left
    ELSE IF Throws(lexer, left.pos) THEN LexFailure(lexer, left.pos)
    ELSE IF peek(lexer, left.pos).kind = "and"
    THEN parseAndLoop(lexer, left.pos, <<left.node>>)
    ELSE left

parseAndCondition(lexer, pos) ==
    parseAndConditionFrom(lexer, parseRelation(lexer, pos))

RECURSIVE parseOrLoop(_, _, _)

\* alternatives.push(alternative), then the loop again.
parseOrLoopPush(lexer, alternative, alternatives) ==
    IF ~alternative.ok THEN alternative
    ELSE parseOrLoop(lexer, alternative.pos,
                     Append(alternatives, alternative.node))

\* while (lexer.accept('or')) alternatives.push(parseAndCondition(lexer))
parseOrLoop(lexer, pos, alternatives) ==
    IF Throws(lexer, pos) THEN LexFailure(lexer, pos)
    ELSE IF peek(lexer, pos).kind = "or"
    THEN parseOrLoopPush(lexer, parseAndCondition(lexer, pos + 1), alternatives)
    ELSE Ok([kind |-> "OrCondition", alternatives |-> alternatives], pos)

\* parseCondition after its first alternative.
parseConditionFrom(lexer, left) ==
    IF ~left.ok THEN left
    ELSE IF Throws(lexer, left.pos) THEN LexFailure(lexer, left.pos)
    ELSE IF peek(lexer, left.pos).kind = "or"
    THEN parseOrLoop(lexer, left.pos, <<left.node>>)
    ELSE left

parseCondition(lexer, pos) ==
    parseConditionFrom(lexer, parseAndCondition(lexer, pos))

\* source.replace('c', 'e'): the first 'c' only.
RECURSIVE ReplaceFirstC(_)
ReplaceFirstC(src) ==
    IF src = <<>> THEN <<>>
    ELSE IF Head(src) = "c" THEN <<"e">> \o Tail(src)
    ELSE <<Head(src)>> \o ReplaceFirstC(Tail(src))

expectSampleValue(lexer, pos, message) ==
    LET token == peek(lexer, pos)
    IN  IF Throws(lexer, pos) THEN LexFailure(lexer, pos)
        ELSE IF token.kind # "Value" THEN expected(message, token)
        ELSE Ok([kind |-> "SampleValue", source |-> token.source,
                 value |-> IF token.isInt
                           THEN Finite(FALSE, DigitsToNat(token.source), 0)
                           ELSE parseFloat(ReplaceFirstC(token.source))],
                pos + 1)

SampleListNode(ranges, infinite) ==
    [kind |-> "SampleList", ranges |-> ranges, infinite |-> infinite]

\* The sample range from start to the value read after '~'.
parseSampleRangeEnd(start, end) ==
    IF ~end.ok THEN end
    ELSE Ok([kind |-> "SampleRange", start |-> start.node, end |-> end.node],
            end.pos)

\* One entry of the sample list: the value start, or the range it begins.
parseSampleItem(lexer, start) ==
    IF ~start.ok THEN start
    ELSE IF Throws(lexer, start.pos) THEN LexFailure(lexer, start.pos)
    ELSE IF peek(lexer, start.pos).kind = "~"
    THEN parseSampleRangeEnd(start,
             expectSampleValue(lexer, start.pos + 1, "sample value after '~'"))
    ELSE start

RECURSIVE parseSampleListFrom(_, _, _)

\* ranges.push(item), then while (lexer.accept(',')).
parseSampleListWhile(lexer, item, ranges) ==
    IF ~item.ok THEN item
    ELSE IF Throws(lexer, item.pos) THEN LexFailure(lexer, item.pos)
    ELSE IF peek(lexer, item.pos).kind = ","
    THEN parseSampleListFrom(lexer, item.pos + 1, Append(ranges, item.node))
    ELSE Ok(SampleListNode(Append(ranges, item.node), FALSE), item.pos)

\* The loop of parseSampleList without the test of ranges.length at an
\* ellipsis.
parseSampleListAnyEllipsis(lexer, pos, ranges) ==
    IF Throws(lexer, pos) THEN LexFailure(lexer, pos)
    ELSE IF peek(lexer, pos).kind = Ellipsis
    THEN Ok(SampleListNode(ranges, TRUE), pos + 1)
    ELSE parseSampleListWhile(lexer,
             parseSampleItem(lexer,
                 expectSampleValue(lexer, pos, "sample value or sample range")),
             ranges)

\* The do-while loop of parseSampleList, entered at pos with the ranges
\* pushed so far.
parseSampleListFrom(lexer, pos, ranges) ==
    IF Throws(lexer, pos) THEN LexFailure(lexer, pos)
    ELSE IF peek(lexer, pos).kind = Ellipsis THEN
        IF Len(ranges) = 0
        THEN Fail(ParseError(
                 "Expected at least one sample value or range before '...'",
                 EofToken))
        ELSE Ok(SampleListNode(ranges, TRUE), pos + 1)
    ELSE parseSampleListWhile(lexer,
             parseSampleItem(lexer,
                 expectSampleValue(lexer, pos, "sample value or sample range")),
             ranges)

parseSampleList(lexer, pos) == parseSampleListFrom(lexer, pos, <<>>)

\* One of the two optional lists of parseSamples: the list after the
\* marker, or null and the position unchanged.
parseOptionalSampleList(lexer, pos, marker) ==
    IF Throws(lexer, pos) THEN LexFailure(lexer, pos)
    ELSE IF peek(lexer, pos).kind = marker THEN parseSampleList(lexer, pos + 1)
    ELSE Ok(Null, pos)

\* The return of parseSamples, once both lists have been read.
parseSamplesBoth(integer, decimal) ==
    IF ~decimal.ok THEN decimal
    ELSE IF integer.node = Null /\ decimal.node = Null
    THEN Ok(Null, decimal.pos)
    ELSE Ok([kind |-> "Samples", integer |-> integer.node,
             decimal |-> decimal.node], decimal.pos)

\* parseSamples after the @integer list.
parseSamplesDecimal(lexer, integer) ==
    IF ~integer.ok THEN integer
    ELSE parseSamplesBoth(integer,
             parseOptionalSampleList(lexer, integer.pos, "@decimal"))

parseSamples(lexer, pos) ==
    parseSamplesDecimal(lexer, parseOptionalSampleList(lexer, pos, "@integer"))

\* The return of parseRuleBody, once the samples have been read.
parseRuleBodyBoth(condition, samples) ==
    IF ~samples.ok THEN samples
    ELSE Ok([kind |-> "PluralRule", condition |-> condition.node,
             samples |-> samples.node], samples.pos)

\* parseRuleBody after the condition.
parseRuleBodySamples(lexer, condition) ==
    IF ~condition.ok THEN condition
    ELSE parseRuleBodyBoth(condition, parseSamples(lexer, condition.pos))

\* parseRuleBody reading a condition only where one is written.
parseRuleBodyOptionalCondition(lexer, pos) ==
    IF ~Throws(lexer, pos) /\ peek(lexer, pos).kind \in {"@integer", "@decimal", ";", "EOF"}
    THEN parseRuleBodyBoth(Ok(Null, pos), parseSamples(lexer, pos))
    ELSE parseRuleBodySamples(lexer, parseCondition(lexer, pos))

parseRuleBody(lexer, pos) ==
    parseRuleBodySamples(lexer, parseCondition(lexer, pos))

\* A parse that never calls expectEOF.
expectEOFSkipped(lexer, result) == result

\* expectEOF after the parse that gave result: the parsed node, or the
\* error of the parse or of expectEOF.
expectEOF(lexer, result) ==
    IF ~result.ok THEN result
    ELSE IF Throws(lexer, result.pos) THEN LexFailure(lexer, result.pos)
    ELSE IF peek(lexer, result.pos).kind # "EOF"
    THEN expected("end-of-file", peek(lexer, result.pos))
    ELSE result

parseRuleTokens(lexer) == expectEOF(lexer, parseRuleBody(lexer, 1))

parseRule(src) == parseRuleTokens(lex(src))

\* The rules map keeps insertion order: a sequence of entries, appended to
\* only for a category that is not in it yet.
\* A map that never reports a key as present.
RulesHasNothing(rules, category) == FALSE
RulesHas(rules, category) ==
    \E k \in 1..Len(rules) : rules[k].category = category
RulesSet(rules, category, rule) ==
    Append(rules, [category |-> category, rule |-> rule])

\* No category is treated as 'other'.
IsNeverOtherCategory(category) == FALSE
IsOtherCategory(category) == category = "other"

RuleSetNode(rules, other) ==
    [kind |-> "PluralRuleSet", rules |-> rules, other |-> other]

RECURSIVE parseRuleSetFrom(_, _, _, _, _)

\* The loop condition also taking a ';' that ends the source as the end of
\* the rules.
parseRuleSetWhileTerminated(lexer, pos, rules, other, otherSeen) ==
    IF Throws(lexer, pos) THEN LexFailure(lexer, pos)
    ELSE IF peek(lexer, pos).kind = ";" /\ peek(lexer, pos + 1).kind # "EOF"
    THEN parseRuleSetFrom(lexer, pos + 1, rules, other, otherSeen)
    ELSE IF peek(lexer, pos).kind = ";"
    THEN Ok(RuleSetNode(rules, other), pos + 1)
    ELSE Ok(RuleSetNode(rules, other), pos)

\* while (lexer.accept(';')), with the map, the samples of 'other' and the
\* otherSeen flag as the iteration left them.
parseRuleSetWhile(lexer, pos, rules, other, otherSeen) ==
    IF Throws(lexer, pos) THEN LexFailure(lexer, pos)
    ELSE IF peek(lexer, pos).kind = ";"
    THEN parseRuleSetFrom(lexer, pos + 1, rules, other, otherSeen)
    ELSE Ok(RuleSetNode(rules, other), pos)

\* The 'other' branch also entering 'other' in the rules map.
parseRuleSetOtherAsRule(lexer, samples, rules) ==
    IF ~samples.ok THEN samples
    ELSE parseRuleSetWhile(lexer, samples.pos, RulesSet(rules, "other", Null),
                           samples.node, TRUE)

\* otherSeen = true; other = parseSamples(lexer)
parseRuleSetOther(lexer, samples, rules) ==
    IF ~samples.ok THEN samples
    ELSE parseRuleSetWhile(lexer, samples.pos, rules, samples.node, TRUE)

\* rule = parseRuleBody(lexer); rules.set(category, rule)
parseRuleSetRule(lexer, rule, category, rules, other, otherSeen) ==
    IF ~rule.ok THEN rule
    ELSE parseRuleSetWhile(lexer, rule.pos, RulesSet(rules, category, rule.node),
                           other, otherSeen)

\* The loop of parseRuleSet taking only a PluralCategory token as the
\* category name.
parseRuleSetNamesOnly(lexer, pos, rules, other, otherSeen) ==
    LET token == peek(lexer, pos)
    IN  IF Throws(lexer, pos) THEN LexFailure(lexer, pos)
        ELSE IF token.kind # "PluralCategory"
        THEN expected("a plural category", token)
        ELSE IF Throws(lexer, pos + 1) THEN LexFailure(lexer, pos + 1)
        ELSE IF peek(lexer, pos + 1).kind # ":"
        THEN expected("':' after plural category", peek(lexer, pos + 1))
        ELSE IF IsOtherCategory(token.name) THEN
            IF otherSeen
            THEN Fail(ParseError("Category 'other' occurs more than once", EofToken))
            ELSE parseRuleSetOther(lexer, parseSamples(lexer, pos + 2), rules)
        ELSE IF RulesHas(rules, token.name)
        THEN Fail(ParseError("Category '" \o token.name \o "' occurs more than once",
                             EofToken))
        ELSE parseRuleSetRule(lexer, parseRuleBody(lexer, pos + 2), token.name,
                              rules, other, otherSeen)

\* The do-while loop of parseRuleSet, entered at pos with the map, the
\* samples of 'other' and the otherSeen flag as they stand.
parseRuleSetFrom(lexer, pos, rules, other, otherSeen) ==
    LET token == peek(lexer, pos)
        category == IF token.kind = "PluralCategory" THEN token.name ELSE token.kind
    IN  IF Throws(lexer, pos) THEN LexFailure(lexer, pos)
        ELSE IF ~(\/ token.kind = "PluralCategory"
                  \/ isKeyword(token.kind)
                  \/ isOperand(token.kind))
        THEN expected("a plural category", token)
        ELSE IF Throws(lexer, pos + 1) THEN LexFailure(lexer, pos + 1)
        ELSE IF peek(lexer, pos + 1).kind # ":"
        THEN expected("':' after plural category", peek(lexer, pos + 1))
        ELSE IF IsOtherCategory(category) THEN
            IF otherSeen
            THEN Fail(ParseError("Category 'other' occurs more than once", EofToken))
            ELSE parseRuleSetOther(lexer, parseSamples(lexer, pos + 2), rules)
        ELSE IF RulesHas(rules, category)
        THEN Fail(ParseError("Category '" \o category \o "' occurs more than once",
                             EofToken))
        ELSE parseRuleSetRule(lexer, parseRuleBody(lexer, pos + 2), category,
                              rules, other, otherSeen)

\* parseRuleSet up to its call of expectEOF.
parseRuleSetRules(lexer) ==
    IF Throws(lexer, 1) THEN LexFailure(lexer, 1)
    ELSE IF peek(lexer, 1).kind # "EOF"
    THEN parseRuleSetFrom(lexer, 1, <<>>, Null, FALSE)
    ELSE Ok(RuleSetNode(<<>>, Null), 1)

parseRuleSetTokens(lexer) == expectEOF(lexer, parseRuleSetRules(lexer))

parseRuleSet(src) == parseRuleSetTokens(lex(src))

-----------------------------------------------------------------------------
(* Evaluator: src/src/evaluate.ts                                          *)

\* (r * 10^k) % d
RECURSIVE RemainderTimesPow10(_, _, _)
RemainderTimesPow10(r, k, d) ==
    IF k = 0 THEN r % d ELSE RemainderTimesPow10((r * 10) % d, k - 1, d)

\* value % d for a divisor d >= 0; x % 0 is NaN, and the remainder has the
\* sign of the dividend (-0 is 0 to every comparison).
Remainder(value, d) ==
    IF value.nan \/ d = 0 THEN NaNVal
    ELSE IF value.scale < 0
    THEN IntVal(RemainderTimesPow10(value.num % d, 0 - value.scale, d))
    ELSE IF value.num < 0
    THEN Val(0 - ((0 - value.num) % (d * Pow10(value.scale))), value.scale)
    ELSE Val(value.num % (d * Pow10(value.scale)), value.scale)

\* k === value, start <= value, value <= end and Number.isInteger(value)
\* for an integer k below 2^31; every comparison with NaN is false, and a
\* value with a negative scale is an integer of 2^31 or more.
StrictEquals(k, value) ==
    ~value.nan /\ value.scale >= 0 /\ value.num = k * Pow10(value.scale)
LessOrEqual(k, value) ==
    ~value.nan /\ (value.scale < 0 \/ k * Pow10(value.scale) <= value.num)
GreaterOrEqual(k, value) ==
    ~value.nan /\ value.scale >= 0 /\ k * Pow10(value.scale) >= value.num
NumberIsInteger(value) ==
    ~value.nan /\ (value.scale < 0 \/ value.num % Pow10(value.scale) = 0)

\* evaluateExpr returning the operand whether or not there is a divisor.
evaluateExprRaw(expr, op) == op[expr.operand]

evaluateExpr(expr, op) ==
    LET value == op[expr.operand]
    IN  IF expr.modDivisor # Null
        THEN Remainder(value, expr.modDivisor.value)
        ELSE value

\* rangeContains without the test of within and Number.isInteger.
rangeContainsAnyValue(range, value, within) ==
    LessOrEqual(range.start.value, value)
        /\ GreaterOrEqual(range.end.value, value)

\* rangeContains taking the smaller end of the range as its start.
rangeContainsEitherOrder(range, value, within) ==
    IF ~within /\ ~NumberIsInteger(value) THEN FALSE
    ELSE \/ LessOrEqual(range.start.value, value)
            /\ GreaterOrEqual(range.end.value, value)
         \/ LessOrEqual(range.end.value, value)
            /\ GreaterOrEqual(range.start.value, value)

rangeContains(range, value, within) ==
    IF ~within /\ ~NumberIsInteger(value) THEN FALSE
    ELSE LessOrEqual(range.start.value, value)
            /\ GreaterOrEqual(range.end.value, value)

\* The loop of testRelation from index i on: whether anyRangeMatches gets set.
RECURSIVE anyRangeMatchesFrom(_, _, _, _)
anyRangeMatchesFrom(ranges, i, value, within) ==
    IF i > Len(ranges) THEN FALSE
    ELSE IF (IF ranges[i].kind = "Value"
             THEN StrictEquals(ranges[i].value, value)
             ELSE rangeContains(ranges[i], value, within))
    THEN TRUE
    ELSE anyRangeMatchesFrom(ranges, i + 1, value, within)

\* testRelation returning anyRangeMatches as it is, negated or not.
testRelationNotNegating(relation, op) ==
    anyRangeMatchesFrom(relation.ranges, 1, evaluateExpr(relation.expr, op),
                        relation.within)

testRelation(relation, op) ==
    LET value == evaluateExpr(relation.expr, op)
        anyRangeMatches == anyRangeMatchesFrom(relation.ranges, 1, value,
                                               relation.within)
    IN  anyRangeMatches # relation.negated

\* An AndCondition loop that returns after its first relation.
testRelationsFirstOnly(relations, i, op) ==
    IF i > Len(relations) THEN TRUE ELSE testRelation(relations[i], op)

\* The loop of the AndCondition case from index i on.
RECURSIVE testRelationsFrom(_, _, _)
testRelationsFrom(relations, i, op) ==
    IF i > Len(relations) THEN TRUE
    ELSE IF ~testRelation(relations[i], op) THEN FALSE
    ELSE testRelationsFrom(relations, i + 1, op)

RECURSIVE testCondition(_, _)

\* The loop of the OrCondition case from index i on.
RECURSIVE testAlternativesFrom(_, _, _)
testAlternativesFrom(alternatives, i, op) ==
    IF i > Len(alternatives) THEN FALSE
    ELSE IF testCondition(alternatives[i], op) THEN TRUE
    ELSE testAlternativesFrom(alternatives, i + 1, op)

testCondition(node, op) ==
    CASE node.kind = "OrCondition" -> testAlternativesFrom(node.alternatives, 1, op)
      [] node.kind = "AndCondition" -> testRelationsFrom(node.relations, 1, op)
      [] node.kind = "Relation" -> testRelation(node, op)

\* What an evaluator call did: the category or boolean returned, or the
\* error thrown.
Outcome(api, threw, error, category, matched) ==
    [api |-> api, threw |-> threw, error |-> error,
     category |-> category, matched |-> matched]
NoOutcome == Outcome("", FALSE, "", "", FALSE)

\* A getPluralCategory loop that keeps looking after a match, so that the
\* last matching category wins.
RECURSIVE lastCategoryFrom(_, _, _)
lastCategoryFrom(rules, i, op) ==
    IF i > Len(rules) THEN "other"
    ELSE IF lastCategoryFrom(rules, i + 1, op) # "other"
    THEN lastCategoryFrom(rules, i + 1, op)
    ELSE IF testCondition(rules[i].rule.condition, op) THEN rules[i].category
    ELSE "other"

\* The for-of loop of getPluralCategory from entry i on.
RECURSIVE firstCategoryFrom(_, _, _)
firstCategoryFrom(rules, i, op) ==
    IF i > Len(rules) THEN "other"
    ELSE IF testCondition(rules[i].rule.condition, op) THEN rules[i].category
    ELSE firstCategoryFrom(rules, i + 1, op)

\* The nodes one evaluator call reads, in the order it reads them.  A node
\* is named by its path from the root: the index of a rule in the map, of
\* an alternative, of a relation, of an entry of a range list; 0 for the
\* expr of a relation.

\* The loop of testRelation from entry i on, up to its break.
RECURSIVE visitsRangesFrom(_, _, _, _, _)
visitsRangesFrom(ranges, i, value, within, path) ==
    IF i > Len(ranges) THEN <<>>
    ELSE IF (IF ranges[i].kind = "Value"
             THEN StrictEquals(ranges[i].value, value)
             ELSE rangeContains(ranges[i], value, within))
    THEN <<path \o <<i>>>>
    ELSE <<path \o <<i>>>> \o visitsRangesFrom(ranges, i + 1, value, within, path)

visitsRelation(relation, op, path) ==
    <<path, path \o <<0>>>>
        \o visitsRangesFrom(relation.ranges, 1, evaluateExpr(relation.expr, op),
                            relation.within, path)

\* The loop of the AndCondition case from index i on, up to its return.
RECURSIVE visitsRelationsFrom(_, _, _, _)
visitsRelationsFrom(relations, i, op, path) ==
    IF i > Len(relations) THEN <<>>
    ELSE IF ~testRelation(relations[i], op)
    THEN visitsRelation(relations[i], op, path \o <<i>>)
    ELSE visitsRelation(relations[i], op, path \o <<i>>)
            \o visitsRelationsFrom(relations, i + 1, op, path)

RECURSIVE visitsCondition(_, _, _)

\* The loop of the OrCondition case from index i on, up to its return.
RECURSIVE visitsAlternativesFrom(_, _, _, _)
visitsAlternativesFrom(alternatives, i, op, path) ==
    IF i > Len(alternatives) THEN <<>>
    ELSE IF testCondition(alternatives[i], op)
    THEN visitsCondition(alternatives[i], op, path \o <<i>>)
    ELSE visitsCondition(alternatives[i], op, path \o <<i>>)
            \o visitsAlternativesFrom(alternatives, i + 1, op, path)

visitsCondition(node, op, path) ==
    CASE node.kind = "OrCondition" ->
            <<path>> \o visitsAlternativesFrom(node.alternatives, 1, op, path)
      [] node.kind = "AndCondition" ->
            <<path>> \o visitsRelationsFrom(node.relations, 1, op, path)
      [] node.kind = "Relation" -> visitsRelation(node, op, path)

\* The for-of loop of getPluralCategory from entry i on, up to its return.
RECURSIVE visitsRulesFrom(_, _, _)
visitsRulesFrom(rules, i, op) ==
    IF i > Len(rules) THEN <<>>
    ELSE IF testCondition(rules[i].rule.condition, op)
    THEN visitsCondition(rules[i].rule.condition, op, <<i>>)
    ELSE visitsCondition(rules[i].rule.condition, op, <<i>>)
            \o visitsRulesFrom(rules, i + 1, op)

\* The body of getPluralCategory once the operands have been derived; an
\* error thrown by getOperands propagates.
getPluralCategoryWith(rules, op) ==
    IF op.threw THEN Outcome("getPluralCategory", TRUE, op.error, "", FALSE)
    ELSE Outcome("getPluralCategory", FALSE, "",
                 firstCategoryFrom(rules.rules, 1, op.value), FALSE)

\* getPluralCategory without the test of rules.size: the operands are
\* derived for an empty rule set too.
getPluralCategoryAlwaysDerives(rules, n) ==
    getPluralCategoryWith(rules, getOperands(n))

getPluralCategory(rules, n) ==
    IF Len(rules.rules) > 0
    THEN getPluralCategoryWith(rules, getOperands(n))
    ELSE Outcome("getPluralCategory", FALSE, "", "other", FALSE)

\* A testPluralRule in which a rule with samples never matches.
testPluralRuleSampled(rule, op) ==
    IF op.threw THEN Outcome("testPluralRule", TRUE, op.error, "", FALSE)
    ELSE Outcome("testPluralRule", FALSE, "", "",
                 rule.samples = Null /\ testCondition(rule.condition, op.value))

\* The body of testPluralRule once the operands have been derived.
testPluralRuleWith(rule, op) ==
    IF op.threw THEN Outcome("testPluralRule", TRUE, op.error, "", FALSE)
    ELSE Outcome("testPluralRule", FALSE, "", "",
                 testCondition(rule.condition, op.value))

testPluralRule(rule, n) == testPluralRuleWith(rule, getOperands(n))

-----------------------------------------------------------------------------
(* The texts and numbers the calls are made with                           *)

MaxRelations == 3   \* relations in a generated chain of and / or
MaxRules == 2       \* rules in a generated rule set
MaxCalls == 5       \* calls made on a lexer used on its own
MaxTokens == 40     \* tokens a generator run alone may yield

Space == <<" ">>

\* Left-hand sides, relation operators and right-hand sides of one relation.
ExprTexts ==
    {<<"n">>,
     <<"i">>,
     <<"v">>,
     <<"n"," ","%"," ","2">>,
     <<"n"," ","m","o","d"," ","0">>}
RelationOperatorTexts ==
    {<<"=">>,
     <<"i","n">>,
     <<"i","s">>,
     <<"!","=">>,
     <<"n","o","t"," ","i","n">>,
     <<"i","s"," ","n","o","t">>,
     <<"w","i","t","h","i","n">>,
     <<"n","o","t"," ","w","i","t","h","i","n">>,
     <<"n","o","t"," ","=">>,
     <<"m","o","d">>}
RangeListTexts ==
    {<<"1">>,
     <<"1",".",".","3">>,
     <<"0",","," ","2",".",".","3">>,
     <<"3",".",".","1">>,
     <<"1",".","5">>}
SingleRelationTexts ==
    {e \o Space \o o \o Space \o r :
        e \in ExprTexts, o \in RelationOperatorTexts, r \in RangeListTexts}

\* Chains of up to MaxRelations relations joined by and / or.
ChainRelationTexts ==
    {<<"n"," ","="," ","1">>,
     <<"i"," ","!","="," ","2">>,
     <<"n"," ","w","i","t","h","i","n"," ","1",".",".","2">>}
ConnectiveTexts ==
    {<<"a","n","d">>,
     <<"o","r">>}
RECURSIVE ChainTexts(_)
ChainTexts(k) ==
    IF k = 1 THEN ChainRelationTexts
    ELSE {c \o Space \o j \o Space \o r :
            c \in ChainTexts(k - 1), j \in ConnectiveTexts, r \in ChainRelationTexts}

\* Rules with samples, and rules that are not well formed.
OtherRuleTexts ==
    {<<"n"," ","i","n"," ","1","0",".",".","1">>,
     <<"n"," ","n","o","t"," ","i","n"," ","1","0",".",".","1">>,
     <<"n"," ","w","i","t","h","i","n"," ","1","0",".",".","1">>,
     <<"n"," ","i","n"," ","3",".",".","1",","," ","1","0",".",".","2">>,
     <<"n"," ","!","="," ","5",".",".","2">>,
     <<"i"," ","="," ","1"," ","o","r"," ","n"," ","i","n"," ","1","0",".",".","1">>,
     <<"@","i","n","t","e","g","e","r"," ","1">>,
     <<"@","d","e","c","i","m","a","l"," ","1",".","5">>,
     <<";">>,
     <<"n"," ","="," ","1","E","3">>,
     <<"1","E","3">>,
     <<"1",".","5","c","6">>,
     <<"1","e","3">>,
     <<"n"," ","="," ","1","0","c","0">>,
     <<"n"," ","i","n"," ","1",".","5",".",".","2","e","0","6",","," ","1","2",".">>,
     <<"n"," ","="," ","1"," ","@","d","e","c","i","m","a","l"," ","1",".","0","0","0","1","c","3",","," ","2",".","5","0","e","1","2",","," ","1",".","5","E","3">>,
     <<"n"," ","="," ","1"," ","@","i","n","t","e","g","e","r"," ","2",","," ","3"," ","@","d","e","c","i","m","a","l"," ","5",".","5">>,
     <<"n"," ","="," ","9"," ","@","i","n","t","e","g","e","r"," ","7",","," ","8">>,
     <<"i"," ","m","o","d"," ","1","0"," ","="," ","0">>,
     <<"n"," ","m","o","d"," ","1","0"," ","="," ","0"," ","a","n","d"," ","i"," ","!","="," ","0">>,
     <<"c"," ","="," ","3">>,
     <<"e"," ","="," ","3"," ","o","r"," ","c"," ","="," ","6">>,
     <<"n"," ","="," ","1"," ","@","r","e","a","l"," ","1">>,
     <<"@","i","n","t","e","g","e","r","x"," ","1">>,
     <<"n"," ","="," ","1"," ","a","n","d"," ","@">>,
     <<"N"," ","="," ","1">>,
     <<"2"," ","="," ","n"," ","$">>,
     <<"n"," ","="," ","1"," ","@","i","n","t","e","g","e","r"," ","1",","," ","2"," ","#">>,
     <<"n"," ","="," ","1"," ","@","i","n","t","e","g","e","r"," ","1"," ","@","d","e","c","i","m","a","l"," ","1",".","5"," ","@","f","o","o">>,
     <<"n"," ","="," ","1"," ","@","i","n","t","e","g","e","r"," ","1"," ","@","i","n","t"," ","2">>,
     <<"n"," ","="," ","1"," ","@","i","n","t","e","g","e","r"," ",".",".",".">>,
     <<"n"," ","="," ","1"," ","@","i","n","t","e","g","e","r"," ","1",",">>,
     <<"n"," ","="," ","1"," ","@","i","n","t","e","g","e","r"," ","1"," ",".",".",".">>,
     <<"n"," ","="," ","1"," ","@","i","n","t","e","g","e","r"," ","1",","," ",".",".",".",","," ","2">>,
     <<"n"," ","="," ","1"," ","@","i","n","t","e","g","e","r"," ","1",","," ",".",".","."," ","@","d","e","c","i","m","a","l"," ","0",".","5",","," ",".",".",".">>,
     <<"n"," ","="," ","1"," ","@","i","n","t","e","g","e","r"," ","1",","," ","2","~","5"," ","@","d","e","c","i","m","a","l"," ",".",".",".">>,
     <<"n"," ","="," ","1"," ","@","i","n","t","e","g","e","r"," ","1",","," ",".",".",".",","," ",".",".",".">>,
     <<"n"," ","="," ","1"," ","@","d","e","c","i","m","a","l"," ","1",".","0","~","1",".","5",","," ">> \o <<HorizontalEllipsis>>,
     <<"n"," ","="," ","1"," ","@","i","n","t","e","g","e","r"," ","1">> \o <<HorizontalEllipsis>>,
     <<"n"," ","="," ","1",".","2","3">>,
     <<"n"," ","i","n"," ","0",".","1",".",".","0",".","2">>,
     <<"n"," ","i","n"," ","1",".",".","2",".","5">>,
     <<"n"," ","m","o","d"," ","1",".","5"," ","="," ","1">>,
     <<"n"," ","%"," ","2"," ","="," ","1","c","3">>,
     <<"n"," ","i","s"," ","n","o","t"," ","1",".","0">>,
     <<"n"," ","="," ","1",","," ","2",".","0">>,
     <<"n"," ","="," ","o","n","e">>,
     <<"n"," ","m","o","d"," ","i">>,
     <<"n"," ","i","s"," ","1",","," ","2",","," ","3">>,
     <<"n"," ","i","s"," ","1",".",".","1","0">>,
     <<"n"," ","="," ","1"," ","a","n","d"," ","i"," ","i","s"," ","n","o","t"," ","2"," ","o","r"," ","v"," ","i","s"," ","0">>,
     <<"n"," ","="," ","1",".",".","2"," ","3",".",".","4">>,
     <<"n"," ","="," ","1"," ","m","o","d"," ","1","0">>,
     <<"n"," ","i","n"," ","0",".",".","1","0",".",".","2","0">>,
     <<"n"," ","n","o","t"," ","w","i","t","h","i","n"," ","1",".",".","2",";"," ","3",".",".","4">>,
     <<"i"," ","!","="," ","2"," ","a","n","d"," ","n"," ","="," ","1"," ","o","r"," ","n"," ","w","i","t","h","i","n"," ","1",".",".","2"," ","a","n","d"," ","i"," ","!","="," ","2">>,
     <<"n"," ","="," ","1"," ","a","n","d"," ","i"," ","!","="," ","2"," ","o","r"," ","n"," ","w","i","t","h","i","n"," ","1",".",".","2"," ","a","n","d"," ","n"," ","="," ","1">>,
     <<"n"," ","="," ","1"," ","a","n","d"," ","n"," ","="," ","1"," ","a","n","d"," ","n"," ","="," ","1"," ","a","n","d"," ","n"," ","="," ","1">>,
     <<>>,
     <<"n"," ","="," ","1"," ","@","i","n","t","e","g","e","r"," ","1",","," ","2","1",","," ",".",".",".">>,
     <<"n"," ","="," ","1"," ","@","i","n","t","e","g","e","r"," ","1"," ","@","d","e","c","i","m","a","l"," ","1",".","0","~","1",".","5",","," ","1","c","3">>,
     <<"n"," ","="," ","1"," ","@","i","n","t","e","g","e","r"," ",".",".",".",","," ","1">>,
     <<"@","i","n","t","e","g","e","r"," ","1">>,
     <<"n"," ","="," ","1"," ","@","f","o","o">>,
     <<"n"," ","="," ","1"," ","$"," ","2">>,
     <<"n"," ","="," ","1"," ","2">>,
     <<"n"," ","="," ","1"," ","o","r">>,
     <<"a","n","d"," ","n"," ","="," ","1">>,
     <<"n"," ","="," ","1"," ","a","n","d"," ","o","r"," ","n"," ","="," ","2">>,
     <<"n"," ","i","s"," ","1",","," ","2">>,
     <<"n"," ","="," ","1"," ","o","r"," ","n"," ","="," ","2"," ","a","n","d"," ","n"," ","="," ","3"," ","a","n","d"," ","n"," ","="," ","4"," ","o","r"," ","n"," ","="," ","5">>}
RuleTexts ==
    SingleRelationTexts \cup OtherRuleTexts
        \cup UNION {ChainTexts(k) : k \in 2..MaxRelations}

\* Rule sets of up to MaxRules rules: a category, a colon and a body.
CategoryTexts ==
    {<<"o","n","e">>,
     <<"f","e","w">>,
     <<"o","t","h","e","r">>,
     <<"a","n","d">>}
BodyTexts ==
    {<<>>,
     <<"n"," ","="," ","1">>,
     <<"n"," ","m","o","d"," ","1","0"," ","="," ","1">>,
     <<"@","i","n","t","e","g","e","r"," ","2",","," ","3">>}
RuleDeclTexts ==
    {c \o <<":">> \o (IF b = <<>> THEN <<>> ELSE Space \o b) :
        c \in CategoryTexts, b \in BodyTexts}
RECURSIVE RuleSetTextsOf(_)
RuleSetTextsOf(k) ==
    IF k = 0 THEN {<<>>}
    ELSE IF k = 1 THEN RuleDeclTexts
    ELSE {s \o <<";", " ">> \o d : s \in RuleSetTextsOf(k - 1), d \in RuleDeclTexts}
OtherRuleSetTexts ==
    {<<"o","n","e",":"," ","n"," ","i","n"," ","1","0",".",".","1",";"," ","f","e","w",":"," ","n"," ","n","o","t"," ","i","n"," ","1","0",".",".","1">>,
     <<"o","n","e",":"," ","@","i","n","t","e","g","e","r"," ","1">>,
     <<"o","n","e",":"," ","@","d","e","c","i","m","a","l"," ","1",".","5",";"," ","t","w","o",":"," ","n"," ","="," ","2">>,
     <<"o","n","e",":"," ","n"," ","="," ","1",";"," ","t","w","o",":"," ","@","i","n","t","e","g","e","r"," ","2">>,
     <<" ", "\n">>,
     <<"\t", " ", "\n", " ">>,
     <<"o","n","e",":"," ","n"," ","="," ","1",";"," ","t","w","o",":"," ","n"," ","="," ","2",";">>,
     <<";">>,
     <<"o","n","e",":"," ","n"," ","="," ","1",";",";"," ","t","w","o",":"," ","n"," ","="," ","2">>,
     <<"o","t","h","e","r",":"," ","@","i","n","t","e","g","e","r"," ","1",";">>,
     <<" "," "," ">>,
     <<"o","n","e",":"," ","n"," ","="," ","1"," ","@","i","n","t","e","g","e","r"," ","2",";"," ","f","e","w",":"," ","n"," ","="," ","2"," ","@","d","e","c","i","m","a","l"," ","1",".","0",";"," ","o","t","h","e","r",":"," ","@","i","n","t","e","g","e","r"," ","1",","," ","2">>,
     <<"o","n","e",":"," ","i"," ","="," ","1"," ","a","n","d"," ","v"," ","="," ","0">>,
     <<"o","n","e",":"," ","n"," ","m","o","d"," ","1","0"," ","="," ","1"," ","a","n","d"," ","n"," ","!","="," ","1","1",";"," ","f","e","w",":"," ","n"," ","m","o","d"," ","1","0","0"," ","="," ","2",".",".","4">>,
     <<"o","n","e",":"," ","n"," ","="," ","1",";"," ","o","t","h","e","r",":"," ","@","d","e","c","i","m","a","l"," ","1",".","5"," ","@","f","o","o">>,
     <<"o","n","e",":"," ","n"," ","="," ","1",";"," ","o","n","e",":"," ","n"," ","="," ","2"," ","@","f","o","o">>,
     <<"?">>,
     <<"o","n","e",":"," ","n"," ","="," ","1"," ","^">>,
     <<"o","n","e"," ","@","x">>,
     <<"m","o","d",":"," ","n"," ","="," ","1">>,
     <<"n",":"," ","n"," ","="," ","1">>,
     <<"i",":"," ","i"," ","="," ","1",";"," ","w","i","t","h","i","n",":"," ","n"," ","="," ","2",";"," ","e",":"," ","n"," ","="," ","3"," ","@","i","n","t","e","g","e","r"," ","3">>,
     <<":"," ","n"," ","="," ","1">>,
     <<"="," ","1">>,
     <<"@","i","n","t","e","g","e","r",":"," ","n"," ","="," ","1">>,
     <<"o","n","e",":"," ","n"," ","="," ","1",";"," ","2",":"," ","n"," ","="," ","2">>,
     <<"o","n","e",":"," ","n"," ","="," ","1",";"," ","%",":"," ","n"," ","="," ","2">>,
     <<"o","n","e",":"," ","n"," ","="," ","1",";"," ","@","d","e","c","i","m","a","l"," ","1",".","5">>,
     <<".",".",".",":"," ","n"," ","="," ","1">>,
     <<"i","s",":"," ",";"," ","o","r",":"," ","n"," ","="," ","2">>,
     <<"o","n","e",":"," ","n"," ","="," ","1",";"," ",",">>,
     <<"o","n","e",":"," ","n"," ","="," ","1"," ","@","i","n","t","e","g","e","r"," ","1",","," ",".",".",".",";"," ","o","t","h","e","r",":"," ","@","i","n","t","e","g","e","r"," ","2",","," ",".",".",".">>,
     <<"o","t","h","e","r",":"," ","@","i","n","t","e","g","e","r"," ",".",".",".">>,
     <<"o","n","e",":"," ","n"," ","="," ","1"," ","2">>,
     <<"o","n","e",":"," ","n"," ","="," ","1",";"," ","f","e","w",":"," ","n"," ","="," ","2"," ","m","o","d"," ","3">>,
     <<"o","n","e",":"," ","n"," ","="," ","1",";"," ","o","t","h","e","r",":"," ","@","i","n","t","e","g","e","r"," ","2",";"," ","f","e","w",":"," ","n"," ","="," ","2">>,
     <<"o","n","e",":"," ","i"," ","="," ","1"," ","o","r",";"," ","f","e","w",":"," ","n"," ","="," ","2">>,
     <<"o","t","h","e","r",":"," ","n"," ","!","="," ","1">>,
     <<"o","n","e",":"," ","n"," ","="," ","1",";"," ","o","t","h","e","r",":"," ","@","i","n","t","e","g","e","r"," ","2",";"," ","o","n","e",":"," ","n"," ","="," ","1">>,
     <<"o","n","e",":"," ","n"," ","="," ","1",";">>,
     <<"o","n","e"," ","n"," ","="," ","1">>,
     <<"1",":"," ","n"," ","="," ","1">>,
     <<"o","n","e",":"," ","n"," ","="," ","1",";"," ","@","b","a","r",":"," ","n"," ","="," ","2">>,
     <<"o","n","e",":"," ","n"," ","="," ","1",";"," ","f","e","w",":"," ","n"," ","m","o","d"," ","1","0"," ","="," ","1"," ","a","n","d"," ","n"," ","!","="," ","1","1",";"," ","m","a","n","y",":"," ","i"," ","="," ","0">>}
RuleSetTexts ==
    OtherRuleSetTexts \cup UNION {RuleSetTextsOf(k) : k \in 0..MaxRules}

Sources == RuleTexts \cup RuleSetTexts

\* The texts of a whole run.
RunSources == SingleRelationTexts \cup OtherRuleTexts \cup OtherRuleSetTexts

\* Numbers and strings given to the evaluator.
NumberInputs ==
    {NumberInput(x) : x \in
        {Finite(FALSE, 0, 0), Finite(FALSE, 1, 0), Finite(FALSE, 2, 0),
         Finite(FALSE, 3, 0), Finite(FALSE, 11, 0), Finite(FALSE, 21, 0),
         Finite(FALSE, 15, 1), Finite(FALSE, 25, 1), Finite(FALSE, 10, 1),
         Finite(TRUE, 1, 0), Finite(TRUE, 15, 1),
         Finite(FALSE, 3, 0 - 9), Finite(FALSE, 5, 0 - 9),
         Finite(FALSE, 4, 0), Finite(FALSE, 42, 0), Finite(FALSE, 103, 0),
         NaN, Infinity(FALSE), Infinity(TRUE)}}
StringInputs ==
    {StringInput(s) : s \in
        {<<"1">>,
         <<"1",".","0">>,
         <<"1",".","5","0">>,
         <<"-","2">>,
         <<"1","e","3">>,
         <<"1",".","0","0">>,
         <<"0",".","0","5">>,
         <<"3","0","0","0","0","0","0","0","0","0">>,
         <<"1",".","5","e","6">>,
         <<"1","e","+","3">>,
         <<"a","b","c">>,
         <<>>,
         <<"I","n","f","i","n","i","t","y">>,
         <<"-","I","n","f","i","n","i","t","y">>,
         <<"2","x">>}}
Inputs == NumberInputs \cup StringInputs

\* The inputs of a whole run.
RunInputs ==
    {NumberInput(Finite(FALSE, 0, 0)), NumberInput(Finite(FALSE, 1, 0)),
     NumberInput(Finite(FALSE, 2, 0)), NumberInput(Finite(FALSE, 15, 1)),
     NumberInput(Finite(TRUE, 1, 0)), NumberInput(NaN),
     StringInput(<<"1",".","0">>), StringInput(<<"a","b","c">>)}

\* The texts a lexer is used on by itself, and the kinds accept is called
\* with.
LexerSources ==
    {<<>>,
     <<"n">>,
     <<"n"," ","="," ","1">>,
     <<"o","n","e",":"," ","n">>,
     <<"n"," ","$">>,
     <<"@","x"," ","n">>}
AcceptedKinds == {"n", "=", "EOF", "Value"}

-----------------------------------------------------------------------------
(* The calls                                                               *)

ParseResult(api, r) == [api |-> api, ok |-> r.ok, node |-> r.node, error |-> r.error]
NotParsed == ParseResult("", Fail(NoError))
NoInput == StringInput(<<>>)

\* A call on a lexer: peek, next or accept(kind), and what it returned.
Call(op, kind, r) ==
    [op |-> op, kind |-> kind, token |-> r.token, result |-> r.result,
     threw |-> r.threw]
NoCall == Call("", "", CallResult(NewCursor, Null, FALSE, FALSE))

Init ==
    /\ source \in Sources
    /\ parsed = NotParsed
    /\ input = NoInput
    /\ outcome = NoOutcome
    /\ pc = "start"
    /\ cursor = NewCursor
    /\ consumed = <<>>
    /\ lastCall = NoCall
    /\ calls = 0
    /\ lastIndex = 1
    /\ yielded = <<>>

ParseRuleSet ==
    /\ pc = "start"
    /\ parsed' = ParseResult("parseRuleSet", parseRuleSet(source))
    /\ pc' = "parsed"
    /\ UNCHANGED <<source, input, outcome>>
    /\ UNCHANGED lexerVars
    /\ UNCHANGED tokenVars

ParseRule ==
    /\ pc = "start"
    /\ parsed' = ParseResult("parseRule", parseRule(source))
    /\ pc' = "parsed"
    /\ UNCHANGED <<source, input, outcome>>
    /\ UNCHANGED lexerVars
    /\ UNCHANGED tokenVars

GetPluralCategory(n) ==
    /\ pc = "parsed"
    /\ parsed.api = "parseRuleSet" /\ parsed.ok
    /\ input' = n
    /\ outcome' = getPluralCategory(parsed.node, n)
    /\ pc' = "evaluated"
    /\ UNCHANGED <<source, parsed>>
    /\ UNCHANGED lexerVars
    /\ UNCHANGED tokenVars

TestPluralRule(n) ==
    /\ pc = "parsed"
    /\ parsed.api = "parseRule" /\ parsed.ok
    /\ input' = n
    /\ outcome' = testPluralRule(parsed.node, n)
    /\ pc' = "evaluated"
    /\ UNCHANGED <<source, parsed>>
    /\ UNCHANGED lexerVars
    /\ UNCHANGED tokenVars

Next ==
    \/ ParseRuleSet
    \/ ParseRule
    \/ \E n \in Inputs : GetPluralCategory(n)
    \/ \E n \in Inputs : TestPluralRule(n)

Spec == Init /\ [][Next]_vars

\* A lexer used on its own: lex(source), then any calls of peek, next and
\* accept, up to MaxCalls of them.
LexerInit ==
    /\ source \in LexerSources
    /\ parsed = NotParsed
    /\ input = NoInput
    /\ outcome = NoOutcome
    /\ pc = "lexing"
    /\ cursor = NewCursor
    /\ consumed = <<>>
    /\ lastCall = NoCall
    /\ calls = 0
    /\ lastIndex = 1
    /\ yielded = <<>>

LexerPeek ==
    /\ pc = "lexing" /\ calls < MaxCalls
    /\ cursor' = lexerPeek(lex(source), cursor).cursor
    /\ lastCall' = Call("peek", "", lexerPeek(lex(source), cursor))
    /\ consumed' = consumed
    /\ calls' = calls + 1
    /\ UNCHANGED <<source, parsed, input, outcome, pc>>
    /\ UNCHANGED tokenVars

LexerNext ==
    /\ pc = "lexing" /\ calls < MaxCalls
    /\ cursor' = lexerNext(lex(source), cursor).cursor
    /\ lastCall' = Call("next", "", lexerNext(lex(source), cursor))
    /\ consumed' = IF lexerNext(lex(source), cursor).threw THEN consumed
                   ELSE Append(consumed, lexerNext(lex(source), cursor).token)
    /\ calls' = calls + 1
    /\ UNCHANGED <<source, parsed, input, outcome, pc>>
    /\ UNCHANGED tokenVars

LexerAccept(kind) ==
    /\ pc = "lexing" /\ calls < MaxCalls
    /\ cursor' = lexerAccept(lex(source), cursor, kind).cursor
    /\ lastCall' = Call("accept", kind, lexerAccept(lex(source), cursor, kind))
    /\ consumed' = IF lexerAccept(lex(source), cursor, kind).result
                   THEN Append(consumed, lexerAccept(lex(source), cursor, kind).token)
                   ELSE consumed
    /\ calls' = calls + 1
    /\ UNCHANGED <<source, parsed, input, outcome, pc>>
    /\ UNCHANGED tokenVars

LexerNextStep ==
    \/ LexerPeek
    \/ LexerNext
    \/ \E kind \in AcceptedKinds : LexerAccept(kind)

LexerSpec == LexerInit /\ [][LexerNextStep]_vars

\* A whole run, the generator first: tokens(source) is drained one
\* iteration of its while loop at a time, the parser then reads the tokens
\* it yielded, and the evaluator is called on the tree.
RunInit ==
    /\ source \in RunSources
    /\ parsed = NotParsed
    /\ input = NoInput
    /\ outcome = NoOutcome
    /\ pc = "tokenizing"
    /\ cursor = NewCursor
    /\ consumed = <<>>
    /\ lastCall = NoCall
    /\ calls = 0
    /\ lastIndex = 1
    /\ yielded = <<>>

\* An iteration of the while loop of tokens: exec matches, and the body
\* yields a token or throws.
TokensExec ==
    /\ pc = "tokenizing"
    /\ MatchStart(source, lastIndex) <= Len(source)
    /\ Len(yielded) < MaxTokens
    /\ lastIndex' = MatchEnd(source, MatchStart(source, lastIndex))
    /\ yielded' = Append(yielded, YieldedAt(source, MatchStart(source, lastIndex)))
    /\ pc' = IF YieldedAt(source, MatchStart(source, lastIndex)).kind = "LexError"
             THEN "tokenized" ELSE "tokenizing"
    /\ UNCHANGED <<source, parsed, input, outcome>>
    /\ UNCHANGED lexerVars

\* exec returns null: the loop and the generator end.
TokensReturn ==
    /\ pc = "tokenizing"
    /\ MatchStart(source, lastIndex) > Len(source)
    /\ pc' = "tokenized"
    /\ UNCHANGED <<source, parsed, input, outcome>>
    /\ UNCHANGED lexerVars
    /\ UNCHANGED tokenVars

RunParseRuleSet ==
    /\ pc = "tokenized"
    /\ parsed' = ParseResult("parseRuleSet", parseRuleSetTokens(yielded))
    /\ pc' = "parsed"
    /\ UNCHANGED <<source, input, outcome>>
    /\ UNCHANGED lexerVars
    /\ UNCHANGED tokenVars

RunParseRule ==
    /\ pc = "tokenized"
    /\ parsed' = ParseResult("parseRule", parseRuleTokens(yielded))
    /\ pc' = "parsed"
    /\ UNCHANGED <<source, input, outcome>>
    /\ UNCHANGED lexerVars
    /\ UNCHANGED tokenVars

RunNext ==
    \/ TokensExec
    \/ TokensReturn
    \/ RunParseRuleSet
    \/ RunParseRule
    \/ \E n \in RunInputs : GetPluralCategory(n)
    \/ \E n \in RunInputs : TestPluralRule(n)

\* The while loop of tokens is sequential code: once drained, the generator
\* takes each iteration as soon as the one before it has ended.
RunSpec ==
    RunInit /\ [][RunNext]_vars /\ WF_vars(TokensExec) /\ WF_vars(TokensReturn)

-----------------------------------------------------------------------------
(* Vocabulary of the properties                                            *)

SeqRange(q) == {q[k] : k \in 1..Len(q)}
Least(S) == CHOOSE k \in S : \A j \in S : k <= j

CalledGetPluralCategory == pc = "evaluated" /\ outcome.api = "getPluralCategory"
CalledTestPluralRule == pc = "evaluated" /\ outcome.api = "testPluralRule"
CalledParseRuleSet == pc = "parsed" /\ parsed.api = "parseRuleSet"
CalledParseRule == pc = "parsed" /\ parsed.api = "parseRule"

\* The input has no finite magnitude: a number that is NaN or infinite, or
\* a string that does not begin (after white space and a sign) with a digit
\* or with a point and a digit.
IsNotFiniteInput(in) ==
    IF in.type = "number" THEN in.number.t # "finite"
    ELSE LET p0 == RunEnd(in.text, 1, WhiteSpace)
             p == IF CharAt(in.text, p0) \in {"+", "-"} THEN p0 + 1 ELSE p0
         IN  ~(\/ CharAt(in.text, p) \in Digit
               \/ CharAt(in.text, p) = "." /\ CharAt(in.text, p + 1) \in Digit)

\* The category names declared in a token sequence, in order: the tokens
\* that stand before a colon.
CategoryOfToken(token) ==
    IF token.kind = "PluralCategory" THEN token.name ELSE token.kind
DeclarationIndexes(lexer) ==
    {k \in 1..Len(lexer) : peek(lexer, k + 1).kind = ":"}
RECURSIVE DeclaredFrom(_, _)
DeclaredFrom(lexer, k) ==
    IF k > Len(lexer) THEN <<>>
    ELSE IF k \in DeclarationIndexes(lexer)
    THEN <<CategoryOfToken(lexer[k])>> \o DeclaredFrom(lexer, k + 1)
    ELSE DeclaredFrom(lexer, k + 1)
DeclaredCategories(lexer) == DeclaredFrom(lexer, 1)
RECURSIVE WithoutOther(_)
WithoutOther(names) ==
    IF names = <<>> THEN <<>>
    ELSE IF Head(names) = "other" THEN WithoutOther(Tail(names))
    ELSE <<Head(names)>> \o WithoutOther(Tail(names))

OverlappingRuleSetText == <<"o","n","e",":"," ","n"," ","="," ","1",";"," ","f","e","w",":"," ","n"," ","m","o","d"," ","1","0"," ","="," ","1">>
NumberOne == NumberInput(Finite(FALSE, 1, 0))

-----------------------------------------------------------------------------
(* C1: getPluralCategory returns the first category, in the order of       *)
(* declaration in the source, whose condition is true of the operands of   *)
(* n, and "other" when none is or when the rule set has no categories;     *)
(* for one: n = 1; few: n mod 10 = 1 the number 1 gives "one".             *)
C1_FirstMatchingCategory ==
    CalledGetPluralCategory =>
        LET rules == parsed.node.rules
            declared == WithoutOther(DeclaredCategories(lex(source)))
            matching == {k \in 1..Len(rules) :
                            testCondition(rules[k].rule.condition,
                                          getOperands(input).value)}
        IN  /\ Len(rules) = 0 => ~outcome.threw /\ outcome.category = "other"
            /\ [k \in 1..Len(rules) |-> rules[k].category] = declared
            /\ (Len(rules) > 0 /\ ~outcome.threw) =>
                    outcome.category =
                        IF matching = {} THEN "other" ELSE declared[Least(matching)]
            /\ (source = OverlappingRuleSetText /\ input = NumberOne) =>
                    outcome.category = "one"

C1_Witness ==
    /\ CalledGetPluralCategory
    /\ source = OverlappingRuleSetText
    /\ input = NumberOne
    /\ outcome.category = "one"

(* C2, as claimed: getPluralCategory never fails, whatever the rule set    *)
(* and the input, NaN and the infinities included.                         *)
C2_NeverFails ==
    CalledGetPluralCategory => ~outcome.threw

(* C2, amended: getPluralCategory raises an error exactly when the rule    *)
(* set has at least one category and the input has no finite magnitude;    *)
(* the error is a plain Error, and otherwise a declared category or        *)
(* "other" is returned.                                                    *)
C2_FailsOnlyWithoutFiniteMagnitude ==
    CalledGetPluralCategory =>
        /\ outcome.threw <=>
              (Len(parsed.node.rules) > 0 /\ IsNotFiniteInput(input))
        /\ outcome.threw => outcome.error = "Error"
        /\ ~outcome.threw =>
              outcome.category \in
                  SeqRange(DeclaredCategories(lex(source))) \cup {"other"}

C2_Witness ==
    /\ CalledGetPluralCategory
    /\ Len(parsed.node.rules) = 0
    /\ input = NumberInput(NaN)
    /\ ~outcome.threw /\ outcome.category = "other"

(* C3: deriving the operands of an input without a finite magnitude (NaN,  *)
(* an infinity, text that parses to no finite number) fails with an error  *)
(* that is not a ParseError, and testPluralRule raises that error instead  *)
(* of returning a boolean.                                                 *)
C3_NonFiniteInputRaisesError ==
    CalledTestPluralRule =>
        /\ IsNotFiniteInput(input) =>
              /\ getOperands(input).threw
              /\ outcome.threw
              /\ outcome.error = getOperands(input).error
              /\ outcome.error = "Error"
              /\ outcome.error # "ParseError"
        /\ ~IsNotFiniteInput(input) => ~outcome.threw

C3_Witness ==
    /\ CalledTestPluralRule
    /\ input = StringInput(<<"a", "b", "c">>)
    /\ outcome.threw /\ outcome.error = "Error"

-----------------------------------------------------------------------------
(* The nodes of the parsed tree, and the operands of the latest input      *)

TopConditions ==
    IF parsed.api = "parseRule" THEN {parsed.node.condition}
    ELSE {parsed.node.rules[k].rule.condition : k \in 1..Len(parsed.node.rules)}
AlternativesOf(c) ==
    IF c.kind = "OrCondition" THEN SeqRange(c.alternatives) ELSE {}
TreeConditions == TopConditions \cup UNION {AlternativesOf(c) : c \in TopConditions}
TreeRelations ==
    UNION {CASE c.kind = "Relation" -> {c}
             [] c.kind = "AndCondition" -> SeqRange(c.relations)
             [] OTHER -> {} : c \in TreeConditions}
RangesOf(r) == {e \in SeqRange(r.ranges) : e.kind = "Range"}

EvaluatedWithOperands == pc = "evaluated" /\ ~outcome.threw
InputOperands == getOperands(input).value

\* The decimal v lies between the integers lo and hi, bounds included.
Between(lo, v, hi) ==
    /\ ~v.nan
    /\ v.scale >= 0
    /\ lo * Pow10(v.scale) <= v.num /\ v.num <= hi * Pow10(v.scale)
IsWhole(v) == ~v.nan /\ (v.scale < 0 \/ v.num % Pow10(v.scale) = 0)

\* An entry of ranges matches v as C4 states it: a Value by equality, a
\* Range by containment alone.
EntryMatchesByContainment(e, v) ==
    IF e.kind = "Value" THEN Between(e.value, v, e.value)
    ELSE Between(e.start.value, v, e.end.value)
\* The same, with a Range matching a value that is not whole only within.
EntryMatches(e, v, within) ==
    IF e.kind = "Value" THEN Between(e.value, v, e.value)
    ELSE Between(e.start.value, v, e.end.value) /\ (within \/ IsWhole(v))

BareRelationRule ==
    CalledTestPluralRule /\ parsed.node.condition.kind = "Relation"

OnePointFive == NumberInput(Finite(FALSE, 15, 1))
InRangeText == <<"n"," ","i","n"," ","1",".",".","3">>
WithinRangeText == <<"n"," ","w","i","t","h","i","n"," ","1",".",".","3">>

(* C4, as claimed: testRelation is rangeMatched XOR negated, where an      *)
(* entry of ranges matches by equality (a Value) or by inclusive           *)
(* containment start <= value <= end (a Range).                            *)
C4_RangeMatchesByContainment ==
    EvaluatedWithOperands =>
        \A r \in TreeRelations :
            LET v == evaluateExpr(r.expr, InputOperands)
                rangeMatched ==
                    \E e \in SeqRange(r.ranges) : EntryMatchesByContainment(e, v)
            IN  testRelation(r, InputOperands) = (rangeMatched # r.negated)

(* C4, amended: testRelation is rangeMatched XOR negated, where a Value    *)
(* entry matches by equality and a Range entry by inclusive containment,   *)
(* the latter for a value that is not an integer only when within is set;  *)
(* a negated relation is true exactly when its twin is false.              *)
C4_RangeMatchedXorNegated ==
    EvaluatedWithOperands =>
        /\ \A r \in TreeRelations :
            LET v == evaluateExpr(r.expr, InputOperands)
                rangeMatched ==
                    \E e \in SeqRange(r.ranges) : EntryMatches(e, v, r.within)
            IN  /\ testRelation(r, InputOperands) = (rangeMatched # r.negated)
                /\ testRelation([r EXCEPT !.negated = TRUE], InputOperands)
                      = ~testRelation([r EXCEPT !.negated = FALSE], InputOperands)
        /\ BareRelationRule =>
            LET r == parsed.node.condition
                v == evaluateExpr(r.expr, InputOperands)
            IN  outcome.matched =
                    ((\E e \in SeqRange(r.ranges) : EntryMatches(e, v, r.within))
                        # r.negated)

C4_Witness ==
    /\ BareRelationRule /\ ~outcome.threw
    /\ parsed.node.condition.negated
    /\ \E e \in SeqRange(parsed.node.condition.ranges) : e.kind = "Range"
    /\ ~outcome.matched

(* C5: without within a Range never matches an expression value that is    *)
(* not an integer, even between the bounds (n in 1..3 is false for 1.5);   *)
(* with within it matches every value between the bounds, bounds included  *)
(* (n within 1..3 is true for 1.5); for integer values the two agree.      *)
C5_WithinAdmitsNonIntegers ==
    EvaluatedWithOperands =>
        /\ \A r \in TreeRelations : \A e \in RangesOf(r) :
            LET v == evaluateExpr(r.expr, InputOperands)
            IN  /\ ~IsWhole(v) => ~rangeContains(e, v, FALSE)
                /\ rangeContains(e, v, TRUE)
                      = Between(e.start.value, v, e.end.value)
                /\ IsWhole(v) =>
                      rangeContains(e, v, TRUE) = rangeContains(e, v, FALSE)
        /\ \A r \in TreeRelations :
            IsWhole(evaluateExpr(r.expr, InputOperands)) =>
                testRelation([r EXCEPT !.within = TRUE], InputOperands)
                    = testRelation([r EXCEPT !.within = FALSE], InputOperands)
        /\ (CalledTestPluralRule /\ input = OnePointFive) =>
            /\ source = InRangeText => ~outcome.matched
            /\ source = WithinRangeText => outcome.matched

C5_Witness ==
    /\ CalledTestPluralRule
    /\ source = WithinRangeText
    /\ input = OnePointFive
    /\ outcome.matched

(* C6: an OrCondition is true iff at least one alternative is true, an     *)
(* AndCondition iff every relation is true; stopping at the first true     *)
(* alternative or the first false relation gives what evaluating all the   *)
(* children gives.                                                         *)
C6_OrIsAnyAndIsAll ==
    EvaluatedWithOperands =>
        /\ \A c \in TreeConditions :
            /\ c.kind = "OrCondition" =>
                  testCondition(c, InputOperands)
                      = (\E a \in SeqRange(c.alternatives) :
                            testCondition(a, InputOperands))
            /\ c.kind = "AndCondition" =>
                  testCondition(c, InputOperands)
                      = (\A r \in SeqRange(c.relations) :
                            testRelation(r, InputOperands))
        /\ CalledTestPluralRule =>
              outcome.matched = testCondition(parsed.node.condition, InputOperands)

C6_Witness ==
    /\ CalledTestPluralRule /\ ~outcome.threw
    /\ parsed.node.condition.kind = "OrCondition"
    /\ ~testCondition(parsed.node.condition.alternatives[1], InputOperands)
    /\ \E a \in SeqRange(parsed.node.condition.alternatives) :
          /\ a.kind = "AndCondition"
          /\ testCondition(a, InputOperands)
    /\ \E a \in SeqRange(parsed.node.condition.alternatives) :
          /\ a.kind = "AndCondition"
          /\ testRelation(a.relations[1], InputOperands)
          /\ ~testCondition(a, InputOperands)
    /\ outcome.matched

-----------------------------------------------------------------------------
(* Token sequences: splitting and rewriting                                *)

KindsOf(lexer) == [k \in 1..Len(lexer) |-> lexer[k].kind]
CountKind(lexer, kind) == Cardinality({k \in 1..Len(lexer) : lexer[k].kind = kind})

\* The tokens before the first sample marker.
RECURSIVE ConditionTokens(_)
ConditionTokens(lexer) ==
    IF lexer = <<>> \/ Head(lexer).kind \in SampleCategories THEN <<>>
    ELSE <<Head(lexer)>> \o ConditionTokens(Tail(lexer))

\* The pieces of a token sequence between the tokens of one kind.
RECURSIVE SplitFrom(_, _, _)
SplitFrom(lexer, kind, piece) ==
    IF lexer = <<>> THEN <<piece>>
    ELSE IF Head(lexer).kind = kind
    THEN <<piece>> \o SplitFrom(Tail(lexer), kind, <<>>)
    ELSE SplitFrom(Tail(lexer), kind, Append(piece, Head(lexer)))
SplitAt(lexer, kind) == SplitFrom(lexer, kind, <<>>)

\* Every occurrence of the kinds from (one or two tokens) replaced by
\* tokens of the kinds to.
RECURSIVE Rewrite(_, _, _)
Rewrite(lexer, from, to) ==
    IF lexer = <<>> THEN <<>>
    ELSE IF Len(lexer) >= Len(from)
            /\ KindsOf(SubSeq(lexer, 1, Len(from))) = from
    THEN [k \in 1..Len(to) |-> KindToken(to[k])]
            \o Rewrite(SubSeq(lexer, Len(from) + 1, Len(lexer)), from, to)
    ELSE <<Head(lexer)>> \o Rewrite(Tail(lexer), from, to)

\* The condition the grammar assigns to a token sequence: the relations
\* between 'and' tokens grouped under the alternatives between 'or' tokens.
RelationOf(piece) == parseRelation(piece, 1).node
GroupNode(group) ==
    LET pieces == SplitAt(group, "and")
    IN  IF Len(pieces) = 1 THEN RelationOf(pieces[1])
        ELSE [kind |-> "AndCondition",
              relations |-> [k \in 1..Len(pieces) |-> RelationOf(pieces[k])]]
ExpectedCondition(lexer) ==
    LET groups == SplitAt(ConditionTokens(lexer), "or")
    IN  IF Len(groups) = 1 THEN GroupNode(groups[1])
        ELSE [kind |-> "OrCondition",
              alternatives |-> [k \in 1..Len(groups) |-> GroupNode(groups[k])]]

\* The relations of a condition, from left to right.
RECURSIVE Flatten(_)
Flatten(nodes) ==
    IF nodes = <<>> THEN <<>>
    ELSE (CASE Head(nodes).kind = "OrCondition" -> Flatten(Head(nodes).alternatives)
            [] Head(nodes).kind = "AndCondition" -> Head(nodes).relations
            [] OTHER -> <<Head(nodes)>>)
         \o Flatten(Tail(nodes))

\* A condition with the within flag of every relation cleared.
ClearWithinOfRelation(r) == [r EXCEPT !.within = FALSE]
ClearWithinOfAlternative(a) ==
    IF a.kind = "AndCondition"
    THEN [a EXCEPT !.relations =
            [k \in 1..Len(a.relations) |-> ClearWithinOfRelation(a.relations[k])]]
    ELSE ClearWithinOfRelation(a)
ClearWithin(c) ==
    IF c.kind = "OrCondition"
    THEN [c EXCEPT !.alternatives =
            [k \in 1..Len(c.alternatives) |->
                ClearWithinOfAlternative(c.alternatives[k])]]
    ELSE ClearWithinOfAlternative(c)

SameTree(r1, r2) == r1.ok = r2.ok /\ (r1.ok => r1.node = r2.node)

OrAndAndText == <<"n"," ","="," ","1"," ","o","r"," ","i"," ","!","="," ","2"," ","a","n","d"," ","n"," ","w","i","t","h","i","n"," ","1",".",".","2">>
AndOrAndText == <<"n"," ","="," ","1"," ","a","n","d"," ","i"," ","!","="," ","2"," ","o","r"," ","n"," ","w","i","t","h","i","n"," ","1",".",".","2"," ","a","n","d"," ","n"," ","="," ","1">>

-----------------------------------------------------------------------------
(* C7: 'and' binds tighter than 'or' and the nodes are flat: A or B and C  *)
(* gives OrCondition[A, AndCondition[B, C]], A and B or C and D gives      *)
(* OrCondition[AndCondition[A, B], AndCondition[C, D]], k >= 2 relations   *)
(* joined by 'and' alone (by 'or' alone) give one AndCondition             *)
(* (OrCondition) of k children, one relation gives a bare Relation; so     *)
(* every OrCondition and AndCondition has at least two children and no     *)
(* OrCondition lies inside another condition.                              *)
C7_AndBindsTighterThanOr ==
    /\ (CalledParseRule /\ source \in UNION {ChainTexts(k) : k \in 1..MaxRelations})
          => parsed.ok
    /\ (CalledParseRule /\ parsed.ok) =>
        LET lexer == ConditionTokens(lex(source))
            c == parsed.node.condition
            ands == CountKind(lexer, "and")
            ors == CountKind(lexer, "or")
        IN  /\ c = ExpectedCondition(lex(source))
            /\ Len(Flatten(<<c>>)) = ands + ors + 1
            /\ (ands = 0 /\ ors = 0) => c.kind = "Relation"
            /\ (ands > 0 /\ ors = 0) =>
                  c.kind = "AndCondition" /\ Len(c.relations) = ands + 1
            /\ ors > 0 => c.kind = "OrCondition" /\ Len(c.alternatives) = ors + 1
            /\ source = OrAndAndText =>
                  /\ KindsOf(c.alternatives) = <<"Relation", "AndCondition">>
                  /\ Len(c.alternatives[2].relations) = 2
            /\ source = AndOrAndText =>
                  /\ KindsOf(c.alternatives) = <<"AndCondition", "AndCondition">>
                  /\ Len(c.alternatives[1].relations) = 2
                  /\ Len(c.alternatives[2].relations) = 2
    /\ (pc = "parsed" /\ parsed.ok) =>
        \A c \in TopConditions :
            /\ c.kind = "OrCondition" =>
                  /\ Len(c.alternatives) >= 2
                  /\ \A a \in SeqRange(c.alternatives) :
                        a.kind \in {"AndCondition", "Relation"}
            /\ \A a \in {c} \cup AlternativesOf(c) :
                  a.kind = "AndCondition" =>
                      /\ Len(a.relations) >= 2
                      /\ \A r \in SeqRange(a.relations) : r.kind = "Relation"

C7_Witness ==
    /\ CalledParseRule /\ parsed.ok
    /\ source = AndOrAndText
    /\ KindsOf(parsed.node.condition.alternatives) = <<"AndCondition", "AndCondition">>

(* C8: synonymous relation operators give identical trees: '=' and 'in'    *)
(* (negated false, within false), '!=' and 'not in' (negated true, within  *)
(* false); with one value on the right 'is' is '=' and 'is not' is '!=';   *)
(* 'within' and 'not within' give the tree of 'in' and 'not in' with only  *)
(* the within flag set.                                                    *)
C8_SynonymsGiveIdenticalTrees ==
    CalledParseRule =>
        LET lexer == lex(source)
            asIn == Rewrite(lexer, <<"=">>, <<"in">>)
            asNotIn == Rewrite(lexer, <<"!=">>, <<"not", "in">>)
            isAsIn == Rewrite(Rewrite(lexer, <<"is", "not">>, <<"not", "in">>),
                              <<"is">>, <<"in">>)
            isAsEq == Rewrite(Rewrite(lexer, <<"is", "not">>, <<"!=">>),
                              <<"is">>, <<"=">>)
            withinAsIn == Rewrite(lexer, <<"within">>, <<"in">>)
            relations == Flatten(<<parsed.node.condition>>)
            inAsEq == Rewrite(Rewrite(lexer, <<"not", "in">>, <<"!=">>),
                              <<"in">>, <<"=">>)
        IN  parsed.ok =>
                /\ SameTree(parseRuleTokens(asIn), parsed)
                /\ SameTree(parseRuleTokens(asNotIn), parsed)
                /\ SameTree(parseRuleTokens(inAsEq), parsed)
                /\ SameTree(parseRuleTokens(isAsIn), parsed)
                /\ SameTree(parseRuleTokens(isAsEq), parsed)
                /\ parseRuleTokens(withinAsIn).ok
                /\ parseRuleTokens(withinAsIn).node.condition
                      = ClearWithin(parsed.node.condition)
                /\ Cardinality({k \in 1..Len(relations) : relations[k].within})
                      = CountKind(ConditionTokens(lexer), "within")
                /\ Cardinality({k \in 1..Len(relations) : relations[k].negated})
                      = CountKind(ConditionTokens(lexer), "!=")
                          + CountKind(ConditionTokens(lexer), "not")

C8_Witness ==
    /\ CalledParseRule /\ parsed.ok
    /\ CountKind(lex(source), "!=") = 1
    /\ parsed.node.condition.kind = "Relation"
    /\ parsed.node.condition.negated /\ ~parsed.node.condition.within
    /\ parseRuleTokens(Rewrite(lex(source), <<"!=">>, <<"not", "in">>)).node
          = parsed.node

-----------------------------------------------------------------------------
(* C9: parseRuleSet fails with the ParseError "Category '<name>' occurs    *)
(* more than once" when it comes to a category name declared a second      *)
(* time, a second 'other' included, even when both are empty; so in every  *)
(* successfully parsed rule set each name, 'other' included, was declared  *)
(* at most once.                                                           *)

\* The token at k declares, after well-formed rules, a category that one
\* of those rules has declared.
IsSecondDeclaration(lexer, k) ==
    /\ k > 2
    /\ k \in DeclarationIndexes(lexer)
    /\ lexer[k - 1].kind = ";"
    /\ CategoryOfToken(lexer[k]) \in
          SeqRange(DeclaredCategories(SubSeq(lexer, 1, k - 2)))
    /\ parseRuleSetTokens(SubSeq(lexer, 1, k - 2)).ok

OccursMoreThanOnce(category) ==
    ParseError("Category '" \o category \o "' occurs more than once", EofToken)

TwoEmptyOthersText == <<"o","t","h","e","r",":",";"," ","o","t","h","e","r",":">>

C9_NoCategoryDeclaredTwice ==
    CalledParseRuleSet =>
        LET lexer == lex(source)
            declared == DeclaredCategories(lexer)
        IN  /\ \A k \in 1..Len(lexer) :
                IsSecondDeclaration(lexer, k) =>
                    /\ ~parsed.ok
                    /\ parsed.error = OccursMoreThanOnce(CategoryOfToken(lexer[k]))
            /\ source = TwoEmptyOthersText =>
                    ~parsed.ok /\ parsed.error = OccursMoreThanOnce("other")
            /\ parsed.ok =>
                    \A j, k \in 1..Len(declared) : j # k => declared[j] # declared[k]

C9_Witness ==
    /\ CalledParseRuleSet
    /\ source = TwoEmptyOthersText
    /\ parsed.error = OccursMoreThanOnce("other")

(* C10: 'other' never carries a condition: parseRuleSet fails with a       *)
(* syntax error on a source in which 'other:' is followed by a condition   *)
(* (other: n != 1), and the rules of a successfully parsed rule set have   *)
(* no key 'other'; its samples are in the field other alone.               *)

\* 'other' is declared at k and followed by something that is neither
\* samples nor the end of the rule.
OtherWithCondition(lexer, k) ==
    /\ k \in DeclarationIndexes(lexer)
    /\ CategoryOfToken(lexer[k]) = "other"
    /\ peek(lexer, k + 2).kind \notin {";", "EOF"} \cup SampleCategories

OtherWithConditionText == <<"o","t","h","e","r",":"," ","n"," ","!","="," ","1">>

C10_OtherHasNoCondition ==
    CalledParseRuleSet =>
        LET lexer == lex(source)
        IN  /\ \A k \in 1..Len(lexer) :
                OtherWithCondition(lexer, k) =>
                    ~parsed.ok /\ parsed.error.type = "ParseError"
            /\ (OtherWithCondition(lexer, 1) /\ isOperand(peek(lexer, 3).kind)) =>
                    parsed.error = ParseError("Expected end-of-file", lexer[3])
            /\ source = OtherWithConditionText => ~parsed.ok
            /\ parsed.ok =>
                /\ \A k \in 1..Len(parsed.node.rules) :
                        parsed.node.rules[k].category # "other"
                /\ parsed.node.other # Null =>
                        "other" \in SeqRange(DeclaredCategories(lexer))
                /\ \A k \in DeclarationIndexes(lexer) :
                        CategoryOfToken(lexer[k]) = "other" =>
                            parsed.node.other = parseSamples(lexer, k + 2).node

C10_Witness ==
    /\ CalledParseRuleSet
    /\ source = OtherWithConditionText
    /\ parsed.error = ParseError("Expected end-of-file", KindToken("n"))

-----------------------------------------------------------------------------
(* C11: where 'other' is declared does not matter: a source with an        *)
(* 'other:' declaration, empty or with samples, before, between or after   *)
(* the other rules gives the same rules, in the same order, as the source  *)
(* without it; an 'other:' without samples leaves the field other null;    *)
(* 'other: ; one: n = 1' and 'other:' parse successfully.                  *)

\* The indexes at which 'other' is declared.
OtherDeclarations(lexer) ==
    {k \in DeclarationIndexes(lexer) : CategoryOfToken(lexer[k]) = "other"}

\* The index of the first ';' from k on; Len(lexer) + 1 when there is none.
RECURSIVE SeparatorFrom(_, _)
SeparatorFrom(lexer, k) ==
    IF k > Len(lexer) \/ lexer[k].kind = ";" THEN k
    ELSE SeparatorFrom(lexer, k + 1)

\* The tokens without the declaration at k and one separator next to it.
WithoutDeclaration(lexer, k) ==
    IF SeparatorFrom(lexer, k) <= Len(lexer)
    THEN SubSeq(lexer, 1, k - 1)
            \o SubSeq(lexer, SeparatorFrom(lexer, k) + 1, Len(lexer))
    ELSE SubSeq(lexer, 1, k - 2)

OtherFirstText == <<"o","t","h","e","r",":",";"," ","o","n","e",":"," ","n"," ","="," ","1">>
OtherBetweenText == <<"o","n","e",":"," ","n"," ","="," ","1",";"," ","o","t","h","e","r",":"," ","@","i","n","t","e","g","e","r"," ","2",";"," ","f","e","w",":"," ","n"," ","="," ","2">>
OtherAloneText == <<"o","t","h","e","r",":">>

C11_OtherPositionDoesNotMatter ==
    CalledParseRuleSet =>
        LET lexer == lex(source)
        IN  /\ \A k \in OtherDeclarations(lexer) :
                parsed.ok =>
                    /\ parseRuleSetTokens(WithoutDeclaration(lexer, k)).ok
                    /\ parseRuleSetTokens(WithoutDeclaration(lexer, k)).node.rules
                          = parsed.node.rules
                    /\ peek(lexer, k + 2).kind \in {";", "EOF"} =>
                          parsed.node.other = Null
            /\ source \in {OtherFirstText, OtherAloneText} =>
                    parsed.ok /\ parsed.node.other = Null
            /\ source = OtherFirstText =>
                    parsed.node.rules = parseRuleSet(<<"o","n","e",":"," ","n"," ","="," ","1">>).node.rules

C11_Witness ==
    /\ CalledParseRuleSet /\ parsed.ok
    /\ source = OtherBetweenText
    /\ OtherDeclarations(lex(source)) = {7}
    /\ Len(parsed.node.rules) = 2
    /\ parsed.node.rules[1].category = "one"
    /\ parsed.node.rules[2].category = "few"
    /\ parsed.node.other # Null

-----------------------------------------------------------------------------
(* C12: parseRuleSet and parseRule succeed only when the whole input is    *)
(* consumed: when the token after the longest parsed rule set or rule is   *)
(* not the end of the input the call fails with the ParseError "Expected   *)
(* end-of-file; got ..." and returns no tree, as for 'n = 1..2 3..4',      *)
(* 'n = 1 mod 10' and 'n in 0..10..20'.                                    *)

\* The longest rule set or rule the call parsed, before it looked for the
\* end of the input.
LongestParsed(lexer) ==
    IF parsed.api = "parseRule" THEN parseRuleBody(lexer, 1)
    ELSE parseRuleSetRules(lexer)

ExpectedEndOfFile(token) == ParseError("Expected end-of-file", token)

TwoRangesText == <<"n"," ","="," ","1",".",".","2"," ","3",".",".","4">>
ValueThenModText == <<"n"," ","="," ","1"," ","m","o","d"," ","1","0">>
RangeOfRangeText == <<"n"," ","i","n"," ","0",".",".","1","0",".",".","2","0">>

C12_WholeInputIsConsumed ==
    (CalledParseRule \/ CalledParseRuleSet) =>
        LET lexer == lex(source)
            longest == LongestParsed(lexer)
        IN  /\ (longest.ok /\ peek(lexer, longest.pos).kind \notin {"EOF", "LexError"}) =>
                    /\ ~parsed.ok
                    /\ parsed.node = Null
                    /\ parsed.error = ExpectedEndOfFile(lexer[longest.pos])
            /\ parsed.ok =>
                    /\ longest.ok
                    /\ longest.pos = Len(lexer) + 1
                    /\ parsed.node = longest.node
            /\ (CalledParseRule /\ source = TwoRangesText) =>
                    parsed.error = ExpectedEndOfFile(
                        Token("Value", "", <<"3">>, TRUE))
            /\ (CalledParseRule /\ source = ValueThenModText) =>
                    parsed.error = ExpectedEndOfFile(KindToken("mod"))
            /\ (CalledParseRule /\ source = RangeOfRangeText) =>
                    parsed.error = ExpectedEndOfFile(KindToken(".."))

C12_Witness ==
    /\ CalledParseRule
    /\ source = TwoRangesText
    /\ parseRuleBody(lex(source), 1).ok
    /\ ~parsed.ok
    /\ parsed.error = ExpectedEndOfFile(Token("Value", "", <<"3">>, TRUE))

-----------------------------------------------------------------------------
(* C13: 'is' takes exactly one integer value: expr is [not] v gives a      *)
(* Relation whose ranges hold exactly one Value and whose within flag is   *)
(* false, and a source that continues an 'is' relation with a comma list   *)
(* or a '..' range (n is 1, 2, 3; n is 1..10) is rejected with a           *)
(* ParseError.                                                             *)

\* The token sequences of the relations of a condition, from left to right.
RECURSIVE ConcatAll(_)
ConcatAll(seqs) ==
    IF seqs = <<>> THEN <<>> ELSE Head(seqs) \o ConcatAll(Tail(seqs))
RelationPieces(lexer) ==
    LET groups == SplitAt(ConditionTokens(lexer), "or")
    IN  ConcatAll([k \in 1..Len(groups) |-> SplitAt(groups[k], "and")])

\* The index of the value of the 'is' relation whose 'is' is at k.
IsValueIndex(lexer, k) == IF peek(lexer, k + 1).kind = "not" THEN k + 2 ELSE k + 1

\* An 'is' relation at k goes on, after its value, with a comma or '..'.
IsContinued(lexer, k) ==
    /\ lexer[k].kind = "is"
    /\ peek(lexer, IsValueIndex(lexer, k)).kind = "Value"
    /\ peek(lexer, IsValueIndex(lexer, k) + 1).kind \in {",", ".."}

IsListText == <<"n"," ","i","s"," ","1",","," ","2",","," ","3">>
IsRangeText == <<"n"," ","i","s"," ","1",".",".","1","0">>
IsAndIsNotText == <<"n"," ","="," ","1"," ","a","n","d"," ","i"," ","i","s"," ","n","o","t"," ","2"," ","o","r"," ","v"," ","i","s"," ","0">>

C13_IsTakesOneValue ==
    (CalledParseRule \/ CalledParseRuleSet) =>
        LET lexer == lex(source)
            pieces == RelationPieces(lexer)
        IN  /\ \A k \in 1..Len(lexer) :
                IsContinued(lexer, k) =>
                    ~parsed.ok /\ parsed.error.type = "ParseError"
            /\ (CalledParseRule /\ source = IsListText) =>
                    parsed.error = ParseError("Expected end-of-file", KindToken(","))
            /\ (CalledParseRule /\ source = IsRangeText) =>
                    parsed.error = ParseError("Expected end-of-file", KindToken(".."))
            /\ (CalledParseRule /\ parsed.ok) =>
                LET relations == Flatten(<<parsed.node.condition>>)
                IN  /\ Len(relations) = Len(pieces)
                    /\ \A j \in 1..Len(pieces) :
                        CountKind(pieces[j], "is") = 1 =>
                            /\ Len(relations[j].ranges) = 1
                            /\ relations[j].ranges[1].kind = "Value"
                            /\ relations[j].ranges[1].source
                                  = pieces[j][Len(pieces[j])].source
                            /\ ~relations[j].within
                            /\ relations[j].negated
                                  <=> CountKind(pieces[j], "not") = 1

C13_Witness ==
    /\ CalledParseRule /\ parsed.ok
    /\ source = IsAndIsNotText
    /\ Len(Flatten(<<parsed.node.condition>>)) = 3
    /\ Flatten(<<parsed.node.condition>>)[2].negated
    /\ Flatten(<<parsed.node.condition>>)[2].ranges = <<ValueNode(<<"2">>)>>
    /\ Flatten(<<parsed.node.condition>>)[3].ranges = <<ValueNode(<<"0">>)>>

-----------------------------------------------------------------------------
(* C14: a relation value, a range bound and a modulo divisor must be       *)
(* integer literals: a numeric literal with a fraction or an exponent at   *)
(* such a place fails with "Expected an integer value; got value           *)
(* '<text>'", which is not the error for a token that is no value at all;  *)
(* so every Value node of a parsed tree holds a non-negative integer.      *)

\* What expectIntValue is asked to report when the token is not a value.
ValueMessages ==
    {"Expected value or range", "Expected value after '..'",
     "Expected value after 'is not'", "Expected value or 'not' after 'is'",
     "Expected value after 'mod' or '%'"}

\* The parser has come to the token at k looking for a value: the tokens
\* before k alone fail at their end for want of a value.
ValueWantedAt(lexer, k) ==
    /\ k \in 1..Len(lexer)
    /\ ~parseRuleTokens(SubSeq(lexer, 1, k - 1)).ok
    /\ parseRuleTokens(SubSeq(lexer, 1, k - 1)).error.got = EofToken
    /\ parseRuleTokens(SubSeq(lexer, 1, k - 1)).error.message \in ValueMessages

IsFractionalValue(token) == token.kind = "Value" /\ ~token.isInt

\* The Value nodes of a relation: its divisor, its values and the bounds of
\* its ranges.
ValueNodesOfEntry(entry) ==
    IF entry.kind = "Range" THEN {entry.start, entry.end} ELSE {entry}
ValueNodesOfRelation(r) ==
    (IF r.expr.modDivisor = Null THEN {} ELSE {r.expr.modDivisor})
        \cup UNION {ValueNodesOfEntry(r.ranges[k]) : k \in 1..Len(r.ranges)}

IsIntegerValueNode(node) ==
    /\ node.kind = "Value"
    /\ node.source # <<>>
    /\ \A k \in 1..Len(node.source) : node.source[k] \in Digit
    /\ node.value = DigitsToNat(node.source)
    /\ node.value >= 0

FractionalValueText == <<"n"," ","="," ","1",".","2","3">>
FractionalBoundText == <<"n"," ","i","n"," ","0",".","1",".",".","0",".","2">>
FractionalDivisorText == <<"n"," ","m","o","d"," ","1",".","5"," ","="," ","1">>
NoValueText == <<"n"," ","="," ","o","n","e">>

C14_ValuesAreIntegerLiterals ==
    CalledParseRule =>
        LET lexer == lex(source)
        IN  /\ \A k \in 1..Len(lexer) :
                ValueWantedAt(lexer, k) =>
                    /\ IsFractionalValue(lexer[k]) =>
                          /\ ~parsed.ok
                          /\ parsed.error
                                = ParseError("Expected an integer value", lexer[k])
                    /\ (/\ lexer[k].kind \notin {"Value", "LexError"}
                        /\ ~(lexer[k].kind = "not" /\ lexer[k - 1].kind = "is")) =>
                          /\ ~parsed.ok
                          /\ parsed.error.got = lexer[k]
                          /\ parsed.error.message \in ValueMessages
                          /\ parsed.error.message # "Expected an integer value"
            /\ source = FractionalValueText =>
                    parsed.error = ParseError("Expected an integer value",
                                              Token("Value", "", <<"1",".","2","3">>, FALSE))
            /\ source = FractionalBoundText =>
                    parsed.error = ParseError("Expected an integer value",
                                              Token("Value", "", <<"0",".","1">>, FALSE))
            /\ source = FractionalDivisorText =>
                    parsed.error = ParseError("Expected an integer value",
                                              Token("Value", "", <<"1",".","5">>, FALSE))
            /\ source = NoValueText =>
                    parsed.error = ParseError("Expected value or range",
                                              Token("PluralCategory", "one", <<>>, FALSE))
            /\ parsed.ok =>
                    \A j \in 1..Len(Flatten(<<parsed.node.condition>>)) :
                        \A node \in ValueNodesOfRelation(
                                        Flatten(<<parsed.node.condition>>)[j]) :
                            IsIntegerValueNode(node)

C14_Witness ==
    /\ CalledParseRule
    /\ source = FractionalDivisorText
    /\ ValueWantedAt(lex(source), 3)
    /\ parsed.error = ParseError("Expected an integer value",
                                 Token("Value", "", <<"1",".","5">>, FALSE))

-----------------------------------------------------------------------------
(* C15: in a sample list an ellipsis ('...' or the one character) is       *)
(* accepted only after a comma that follows at least one sample value or   *)
(* range, and only as the last item: as the first item it fails with       *)
(* "Expected at least one sample value or range before '...'", without a   *)
(* comma before it or with items after it the parse fails, and a           *)
(* SampleList has infinite = true iff it ended with an ellipsis and always *)
(* has at least one entry in ranges.                                       *)

\* The parser has come to the token at k looking for a sample value: the
\* tokens before k alone fail at their end for want of one.
SampleWantedAt(lexer, k) ==
    /\ k \in 1..Len(lexer)
    /\ parseRuleTokens(SubSeq(lexer, 1, k - 1)).error
          = ParseError("Expected sample value or sample range", EofToken)

NoSampleBeforeEllipsis ==
    ParseError("Expected at least one sample value or range before '...'", EofToken)

\* The tokens of the sample list after the marker at m: up to the next
\* marker or the end.
RECURSIVE SampleTokensFrom(_, _)
SampleTokensFrom(lexer, k) ==
    IF k > Len(lexer) \/ lexer[k].kind \in SampleCategories THEN <<>>
    ELSE <<lexer[k]>> \o SampleTokensFrom(lexer, k + 1)
SampleTokens(lexer, m) == SampleTokensFrom(lexer, m + 1)

\* The sample list a parsed rule holds for a marker.
SampleListOf(rule, marker) ==
    IF rule.samples = Null THEN Null
    ELSE IF marker = "@integer" THEN rule.samples.integer
    ELSE rule.samples.decimal

EllipsisFirstText == <<"n"," ","="," ","1"," ","@","i","n","t","e","g","e","r"," ",".",".",".">>
EllipsisWithoutCommaText == <<"n"," ","="," ","1"," ","@","i","n","t","e","g","e","r"," ","1"," ",".",".",".">>
EllipsisNotLastText == <<"n"," ","="," ","1"," ","@","i","n","t","e","g","e","r"," ","1",","," ",".",".",".",","," ","2">>
EllipsisInBothText == <<"n"," ","="," ","1"," ","@","i","n","t","e","g","e","r"," ","1",","," ",".",".","."," ","@","d","e","c","i","m","a","l"," ","0",".","5",","," ",".",".",".">>
EllipsisCharacterText == <<"n"," ","="," ","1"," ","@","d","e","c","i","m","a","l"," ","1",".","0","~","1",".","5",","," ">> \o <<HorizontalEllipsis>>

C15_EllipsisEndsSampleList ==
    CalledParseRule =>
        LET lexer == lex(source)
        IN  /\ \A k \in 1..Len(lexer) :
                lexer[k].kind = Ellipsis =>
                    /\ parsed.ok =>
                          /\ k > 2
                          /\ lexer[k - 1].kind = ","
                          /\ lexer[k - 2].kind = "Value"
                          /\ peek(lexer, k + 1).kind \in {"EOF"} \cup SampleCategories
                    /\ (SampleWantedAt(lexer, k) /\ lexer[k - 1].kind \in SampleCategories) =>
                          ~parsed.ok /\ parsed.error = NoSampleBeforeEllipsis
                    /\ (SampleWantedAt(lexer, k) /\ lexer[k - 1].kind = ","
                            /\ k = Len(lexer)) =>
                          parsed.ok
            /\ source \in {EllipsisWithoutCommaText, EllipsisNotLastText} => ~parsed.ok
            /\ source = EllipsisFirstText => parsed.error = NoSampleBeforeEllipsis
            /\ source \in {EllipsisInBothText, EllipsisCharacterText} => parsed.ok
            /\ parsed.ok =>
                \A m \in 1..Len(lexer) :
                    lexer[m].kind \in SampleCategories =>
                        LET list == SampleListOf(parsed.node, lexer[m].kind)
                            items == SampleTokens(lexer, m)
                        IN  /\ list # Null
                            /\ list.kind = "SampleList"
                            /\ Len(list.ranges) >= 1
                            /\ list.infinite <=> items[Len(items)].kind = Ellipsis
                            /\ Len(list.ranges)
                                  = CountKind(items, ",") + 1
                                      - CountKind(items, Ellipsis)

C15_Witness ==
    /\ CalledParseRule /\ parsed.ok
    /\ source = EllipsisInBothText
    /\ parsed.node.samples.integer.infinite
    /\ parsed.node.samples.decimal.infinite
    /\ Len(parsed.node.samples.integer.ranges) = 1

-----------------------------------------------------------------------------
(* C16: where parseRuleSet reads a category name (the first token of a    *)
(* non-empty rule set, and the token after each ';') any run of lowercase  *)
(* letters is taken as the name, keywords ('and', 'mod', ...) and operand  *)
(* letters ('n', 'i', ...) included, and the category is stored under that *)
(* spelling; a value, an operator, a sample marker or the end of the input *)
(* there fails with "Expected a plural category; got ...".                 *)

\* parseRuleSet reads a category name at k: k is the first token, or the
\* token after a ';' that follows a parsed run of declarations.
CategoryWantedAt(lexer, k) ==
    \/ k = 1 /\ Len(lexer) >= 1
    \/ /\ k >= 3 /\ k <= Len(lexer) + 1
       /\ lexer[k - 1].kind = ";"
       /\ parseRuleSetRules(SubSeq(lexer, 1, k - 2)).ok
       /\ parseRuleSetRules(SubSeq(lexer, 1, k - 2)).pos = k - 1

IsWordToken(token) ==
    token.kind = "PluralCategory" \/ token.kind \in Keywords \cup OperandNames

ExpectedPluralCategory(token) == ParseError("Expected a plural category", token)

\* The run of lowercase letters a text starts with.
LeadingWord(src) == SubSeq(src, 1, RunEnd(src, 1, Lower) - 1)

KeywordCategoryText == <<"m","o","d",":"," ","n"," ","="," ","1">>
OperandCategoryText == <<"n",":"," ","n"," ","="," ","1">>
SeveralWordCategoriesText == <<"i",":"," ","i"," ","="," ","1",";"," ","w","i","t","h","i","n",":"," ","n"," ","="," ","2",";"," ","e",":"," ","n"," ","="," ","3"," ","@","i","n","t","e","g","e","r"," ","3">>
ValueAsCategoryText == <<"o","n","e",":"," ","n"," ","="," ","1",";"," ","2",":"," ","n"," ","="," ","2">>
OperatorAsCategoryText == <<"o","n","e",":"," ","n"," ","="," ","1",";"," ","%",":"," ","n"," ","="," ","2">>
MarkerAsCategoryText == <<"@","i","n","t","e","g","e","r",":"," ","n"," ","="," ","1">>
EndAsCategoryText == <<"o","n","e",":"," ","n"," ","="," ","1",";">>

C16_AnyWordNamesACategory ==
    CalledParseRuleSet =>
        LET lexer == lex(source)
            word == Join(LeadingWord(source))
        IN  /\ \A k \in 1..(Len(lexer) + 1) :
                (CategoryWantedAt(lexer, k) /\ ~Throws(lexer, k)) =>
                    IF IsWordToken(peek(lexer, k))
                    THEN /\ parsed.error # ExpectedPluralCategory(peek(lexer, k))
                         /\ (parsed.ok /\ peek(lexer, k + 1).kind = ":") =>
                               \/ CategoryOfToken(peek(lexer, k)) = "other"
                               \/ RulesHas(parsed.node.rules,
                                           CategoryOfToken(peek(lexer, k)))
                    ELSE /\ ~parsed.ok
                         /\ parsed.node = Null
                         /\ parsed.error = ExpectedPluralCategory(peek(lexer, k))
            /\ (parsed.ok /\ word # "" /\ word # "other") =>
                    parsed.node.rules[1].category = word
            /\ source = KeywordCategoryText =>
                    parsed.ok /\ parsed.node.rules[1].category = "mod"
            /\ source = OperandCategoryText =>
                    parsed.ok /\ parsed.node.rules[1].category = "n"
            /\ source = SeveralWordCategoriesText =>
                    /\ parsed.ok
                    /\ [k \in 1..3 |-> parsed.node.rules[k].category]
                          = <<"i", "within", "e">>
            /\ source = ValueAsCategoryText =>
                    parsed.error = ExpectedPluralCategory(Token("Value", "", <<"2">>, TRUE))
            /\ source = OperatorAsCategoryText =>
                    parsed.error = ExpectedPluralCategory(KindToken("%"))
            /\ source = MarkerAsCategoryText =>
                    parsed.error = ExpectedPluralCategory(KindToken("@integer"))
            /\ source = EndAsCategoryText =>
                    parsed.error = ExpectedPluralCategory(EofToken)

C16_Witness ==
    /\ CalledParseRuleSet /\ parsed.ok
    /\ source = SeveralWordCategoriesText
    /\ RulesHas(parsed.node.rules, "within")

-----------------------------------------------------------------------------
(* C17: a source text that contains, anywhere, an '@' word other than      *)
(* '@integer' and '@decimal', or a non-blank character that cannot start a *)
(* token, never gives a tree: parseRuleSet and parseRule fail with a       *)
(* ParseError and return nothing, and the error is the lexical error       *)
(* "Unknown keyword token: <word>" or "Invalid character: <c>" unless a    *)
(* syntax error at an earlier token is reported first.                     *)

\* The '@' word that starts at p: the '@' and the letters after it.
AtWord(s, p) == SubSeq(s, p, RunEnd(s, p + 1, Lower) - 1)

HasUnknownAtWord(s) ==
    \E p \in 1..Len(s) :
        /\ s[p] = "@"
        /\ Join(AtWord(s, p)) \notin SampleCategories

TokenStartCharacters ==
    Lower \cup Digit \cup SingleCharOperators \cup {HorizontalEllipsis, "!", ".", "@"}

HasInvalidCharacter(s) ==
    \E p \in 1..Len(s) : s[p] \notin WhiteSpace \cup TokenStartCharacters

\* The messages a lexical error of the text can have.
LexicalMessages(s) ==
    {"Unknown keyword token: " \o Join(AtWord(s, p)) :
        p \in {q \in 1..Len(s) : s[q] = "@" /\ Len(AtWord(s, q)) > 1}}
    \cup {"Invalid character: " \o s[p] :
        p \in {q \in 1..Len(s) : s[q] \notin WhiteSpace \cup Lower \cup Digit}}

\* The parser of the call that was made, on a token sequence.
ParseTokens(lexer) ==
    IF parsed.api = "parseRule" THEN parseRuleTokens(lexer)
    ELSE parseRuleSetTokens(lexer)

\* The tokens with the lexical error at their end replaced by another one.
WithOtherLexError(lexer) ==
    Append(SubSeq(lexer, 1, Len(lexer) - 1), LexErrorToken("Another error"))

UnknownWordText == <<"n"," ","="," ","1"," ","@","r","e","a","l"," ","1">>
InvalidCharacterText == <<"n"," ","="," ","1"," ","$"," ","2">>
EarlierSyntaxErrorText == <<"2"," ","="," ","n"," ","$">>
UnknownWordAfterRulesText == <<"o","n","e",":"," ","n"," ","="," ","1",";"," ","o","t","h","e","r",":"," ","@","d","e","c","i","m","a","l"," ","1",".","5"," ","@","f","o","o">>

C17_LexicalErrorsNeverGiveATree ==
    ((CalledParseRule \/ CalledParseRuleSet)
        /\ (HasUnknownAtWord(source) \/ HasInvalidCharacter(source))) =>
        LET lexer == lex(source)
            last == lexer[Len(lexer)]
        IN  /\ ~parsed.ok
            /\ parsed.node = Null
            /\ parsed.error.type = "ParseError"
            /\ last.kind = "LexError"
            /\ last.name \in LexicalMessages(source)
            /\ \/ parsed.error.message = last.name
               \/ /\ parsed.error.message \notin LexicalMessages(source)
                  /\ parsed.error.got \in SeqRange(SubSeq(lexer, 1, Len(lexer) - 1))
                        \cup {EofToken}
                  /\ ParseTokens(WithOtherLexError(lexer)).error = parsed.error
            /\ ParseTokens(WithOtherLexError(lexer)).error.message = "Another error"
                    => parsed.error.message = last.name
            /\ (CalledParseRule /\ source = UnknownWordText) =>
                    parsed.error.message = "Unknown keyword token: @real"
            /\ (CalledParseRule /\ source = InvalidCharacterText) =>
                    parsed.error.message = "Invalid character: $"
            /\ (CalledParseRuleSet /\ source = UnknownWordAfterRulesText) =>
                    parsed.error.message = "Unknown keyword token: @foo"
            /\ (CalledParseRule /\ source = EarlierSyntaxErrorText) =>
                    parsed.error.message = "Expected an operand (n, i, f, t, v, w, c, e)"

C17_Witness ==
    /\ CalledParseRuleSet /\ ~parsed.ok
    /\ source = UnknownWordAfterRulesText
    /\ parsed.error.message = "Unknown keyword token: @foo"

-----------------------------------------------------------------------------
(* C18: for every finite input the operands c and e are equal to each      *)
(* other and to the decimal exponent written in the number's text, and are *)
(* 0 when the text has no exponent part: the text '1e3' has exponent 3 and *)
(* '1.5e6' has exponent 6.                                                 *)

\* The exponent written in a text: the digits after the first 'e' or 'E'
\* that is followed by an optional sign and a digit, negated after '-';
\* 0 when the text has no such part.
RECURSIVE WrittenExponentFrom(_, _)
WrittenExponentFrom(s, p) ==
    IF p > Len(s) THEN 0
    ELSE IF s[p] \in {"e", "E"} /\ CharAt(s, p + 1) \in Digit
    THEN DigitsToNat(SubSeq(s, p + 1, RunEnd(s, p + 1, Digit) - 1))
    ELSE IF s[p] \in {"e", "E"} /\ CharAt(s, p + 1) = "+" /\ CharAt(s, p + 2) \in Digit
    THEN DigitsToNat(SubSeq(s, p + 2, RunEnd(s, p + 2, Digit) - 1))
    ELSE IF s[p] \in {"e", "E"} /\ CharAt(s, p + 1) = "-" /\ CharAt(s, p + 2) \in Digit
    THEN 0 - DigitsToNat(SubSeq(s, p + 2, RunEnd(s, p + 2, Digit) - 1))
    ELSE WrittenExponentFrom(s, p + 1)
WrittenExponent(s) == WrittenExponentFrom(s, 1)

CalledEvaluator == CalledGetPluralCategory \/ CalledTestPluralRule

ExponentThreeText == <<"1","e","3">>
ExponentSixText == <<"1",".","5","e","6">>
SignedExponentText == <<"1","e","+","3">>
CompactIsThreeText == <<"c"," ","="," ","3">>

C18_ExponentOperandsAreTheWrittenExponent ==
    (CalledEvaluator /\ ~getOperands(input).threw) =>
        /\ getOperands(input).value.c = getOperands(input).value.e
        /\ getOperands(input).value.c = IntVal(WrittenExponent(InputText(input)))

\* What the code gives for the same inputs: the exponent only when it is
\* written with a sign.
C18_ExponentOperandsNeedASign ==
    (CalledEvaluator /\ ~getOperands(input).threw) =>
        /\ getOperands(input).value.c = getOperands(input).value.e
        /\ input = StringInput(ExponentThreeText) => getOperands(input).value.c = IntVal(0)
        /\ input = StringInput(ExponentSixText) => getOperands(input).value.c = IntVal(0)
        /\ input = StringInput(SignedExponentText) => getOperands(input).value.c = IntVal(3)
        /\ (CalledTestPluralRule /\ source = CompactIsThreeText) =>
              (outcome.matched <=> input = StringInput(SignedExponentText))

C18_Witness ==
    /\ CalledTestPluralRule
    /\ source = CompactIsThreeText
    /\ input = StringInput(ExponentThreeText)
    /\ ~outcome.threw
    /\ ~outcome.matched

-----------------------------------------------------------------------------
(* C19: for every finite input the operand n is the absolute value of the  *)
(* magnitude and the operand i is the integer part of n, truncated toward  *)
(* zero: i = floor(n), for every magnitude, those of 2^31 and more         *)
(* included.                                                               *)

\* The magnitude of the input as a number, before Math.abs.
SignedMagnitude(in) ==
    IF in.type = "number" THEN in.number ELSE parseFloat(in.text)

\* floor(n) for n >= 0: an integer of 2^31 or more is its own integer part.
Floor(n) ==
    IF n.scale < 0 THEN Val(n.num, n.scale)
    ELSE IntVal(n.num \div Pow10(n.scale))

ThreeBillion == NumberInput(Finite(FALSE, 3, 0 - 9))
FiveBillion == NumberInput(Finite(FALSE, 5, 0 - 9))
ThreeBillionText == StringInput(<<"3","0","0","0","0","0","0","0","0","0">>)
IntegerEndsInZeroText == <<"i"," ","m","o","d"," ","1","0"," ","="," ","0">>

C19_IntegerOperandIsFloor ==
    (CalledEvaluator /\ ~getOperands(input).threw) =>
        /\ getOperands(input).value.n
              = Val(SignedMagnitude(input).num, SignedMagnitude(input).scale)
        /\ getOperands(input).value.i = Floor(getOperands(input).value.n)

\* What the code gives: floor(n) below 2^31, and from there on floor(n)
\* wrapped to a signed 32-bit integer.
C19_IntegerOperandWraps ==
    (CalledEvaluator /\ ~getOperands(input).threw) =>
        /\ getOperands(input).value.n
              = Val(SignedMagnitude(input).num, SignedMagnitude(input).scale)
        /\ getOperands(input).value.n.scale >= 0 =>
              getOperands(input).value.i = Floor(getOperands(input).value.n)
        /\ input \in {ThreeBillion, ThreeBillionText} =>
              getOperands(input).value.i = IntVal(0 - 1294967296)
        /\ input = FiveBillion => getOperands(input).value.i = IntVal(705032704)
        /\ (CalledTestPluralRule /\ source = IntegerEndsInZeroText
                /\ input \in {ThreeBillion, ThreeBillionText, FiveBillion}) =>
              ~outcome.matched

C19_Witness ==
    /\ CalledTestPluralRule
    /\ source = IntegerEndsInZeroText
    /\ input = ThreeBillion
    /\ getOperands(input).value.n = Val(3, 0 - 9)
    /\ ~outcome.threw
    /\ ~outcome.matched

-----------------------------------------------------------------------------
(* C20: for every finite input text, with F the digits after the decimal   *)
(* point (none when there is no point): v is the length of F, w the length *)
(* of F without the zeros at its end, f is F read as an integer (0 when F  *)
(* is empty) and t is F without the zeros at its end read as an integer.   *)
(* So w <= v and f = t * 10^(v - w).                                       *)

\* The digits that follow the first point of a text.
FractionDigits(s) ==
    IF \A p \in 1..Len(s) : s[p] # "." THEN <<>>
    ELSE LET point == Least({p \in 1..Len(s) : s[p] = "."})
         IN  SubSeq(s, point + 1, RunEnd(s, point + 1, Digit) - 1)

\* F up to its last digit that is not a zero.
WithoutTrailingZeros(F) ==
    SubSeq(F, 1, CHOOSE k \in 0..Len(F) :
                    /\ k = 0 \/ F[k] # "0"
                    /\ \A j \in (k + 1)..Len(F) : F[j] = "0")

\* A digit string read as an integer: the sum of its digits times their
\* powers of ten.
RECURSIVE DigitSum(_, _)
DigitSum(ds, k) ==
    IF k > Len(ds) THEN 0
    ELSE DigitValue(ds[k]) * Pow10(Len(ds) - k) + DigitSum(ds, k + 1)
ReadAsInteger(ds) == DigitSum(ds, 1)

OnePointFiveZeroText == <<"1",".","5","0">>
LeadingZeroFractionText == <<"0",".","0","5">>
VisibleDigitsText == <<"v"," ","="," ","1",".",".","3">>

-----------------------------------------------------------------------------
(* C21: an Expr evaluates to the raw operand when it has no modDivisor and *)
(* to the operand modulo modDivisor when it has one; so for the rule set   *)
(* 'one: n mod 10 = 1 and n != 11; few: n mod 100 = 2..4' and every        *)
(* integer n >= 0 the category is 'one' iff n mod 10 = 1 and n != 11,      *)
(* otherwise 'few' iff n mod 100 is in 2..4, otherwise 'other': 0 other,   *)
(* 1 one, 4 few, 11 other, 42 other, 103 few.                              *)

\* r is value modulo d, d > 0, for a value that is not negative: r is less
\* than d and value - r is a multiple of d.  An integer num * 10^k of 2^31
\* or more is a multiple of every d that divides 10^k.
IsModulo(r, value, d) ==
    IF value.scale < 0
    THEN /\ ~r.nan /\ r.scale = 0 /\ r.num >= 0 /\ r.num < d
         /\ Pow10(Least({0 - value.scale, 9})) % d = 0 => r.num = 0
    ELSE /\ ~r.nan /\ r.scale = value.scale
         /\ r.num >= 0 /\ r.num < d * Pow10(value.scale)
         /\ (value.num - r.num) % (d * Pow10(value.scale)) = 0

UsageRuleSetText == <<"o","n","e",":"," ","n"," ","m","o","d"," ","1","0"," ","="," ","1"," ","a","n","d"," ","n"," ","!","="," ","1","1",";"," ","f","e","w",":"," ","n"," ","m","o","d"," ","1","0","0"," ","="," ","2",".",".","4">>

\* The inputs that are integers n >= 0 a 32-bit integer holds, and n.
IsCountInput(in) ==
    IF in.type = "number"
    THEN in.number.t = "finite" /\ ~in.number.neg /\ in.number.scale = 0
    ELSE /\ Len(in.text) \in 1..9
         /\ \A k \in 1..Len(in.text) : in.text[k] \in Digit
CountOf(in) ==
    IF in.type = "number" THEN in.number.num ELSE ReadAsInteger(in.text)

UsageCategory(n) ==
    IF n % 10 = 1 /\ n # 11 THEN "one"
    ELSE IF n % 100 \in 2..4 THEN "few"
    ELSE "other"

CountInput(n) == NumberInput(Finite(FALSE, n, 0))

C21_ExprIsOperandOrModulo ==
    /\ (CalledEvaluator /\ ~getOperands(input).threw) =>
          \A r \in TreeRelations :
              LET value == InputOperands[r.expr.operand]
                  result == evaluateExpr(r.expr, InputOperands)
              IN  /\ r.expr.modDivisor = Null => result = value
                  /\ (r.expr.modDivisor # Null /\ r.expr.modDivisor.value = 0) =>
                        result.nan
                  /\ (r.expr.modDivisor # Null /\ r.expr.modDivisor.value > 0
                          /\ value.num >= 0) =>
                        IsModulo(result, value, r.expr.modDivisor.value)
    /\ (CalledGetPluralCategory /\ source = UsageRuleSetText) =>
          /\ IsCountInput(input) =>
                ~outcome.threw /\ outcome.category = UsageCategory(CountOf(input))
          /\ input = CountInput(0) => outcome.category = "other"
          /\ input = CountInput(1) => outcome.category = "one"
          /\ input = CountInput(4) => outcome.category = "few"
          /\ input = CountInput(11) => outcome.category = "other"
          /\ input = CountInput(42) => outcome.category = "other"
          /\ input = CountInput(103) => outcome.category = "few"

C21_Witness ==
    /\ CalledGetPluralCategory
    /\ source = UsageRuleSetText
    /\ input = CountInput(103)
    /\ outcome.category = "few"

-----------------------------------------------------------------------------
(* C22: the category depends on the text of the number and not only on its *)
(* magnitude: for n given as text the fraction and exponent operands come  *)
(* from that very text, for n given as a number from its standard decimal  *)
(* rendering.  For 'one: i = 1 and v = 0' the text '1' and the numbers 1   *)
(* and 1.0 give 'one' and the text '1.0' gives 'other'; for 'one: n = 1'   *)
(* the texts '1', '1.0' and '1.00' all give 'one'.                         *)

\* The standard decimal rendering of a number that is not negative and has
\* no exponent: the integer digits, and after a point the fraction digits
\* up to the last that is not a zero.
DecimalRendering(x) ==
    IF x.scale < 0 THEN NatToDigits(x.num) \o Zeros(0 - x.scale)
    ELSE LET whole == NatToDigits(x.num \div Pow10(x.scale))
             digits == [k \in 1..x.scale |->
                          DigitChar((x.num \div Pow10(x.scale - k)) % 10)]
         IN  IF WithoutTrailingZeros(digits) = <<>> THEN whole
             ELSE whole \o <<".">> \o WithoutTrailingZeros(digits)

\* The text the operands v, w, f, t, c and e are to be read from.
TextForOperands(in) ==
    IF in.type = "string" THEN in.text
    ELSE (IF in.number.neg /\ in.number.num # 0 THEN <<"-">> ELSE <<>>)
            \o DecimalRendering(in.number)

IntegerOneText == <<"o","n","e",":"," ","i"," ","="," ","1"," ","a","n","d"," ","v"," ","="," ","0">>
NumberOneText == <<"o","n","e",":"," ","n"," ","="," ","1">>
TextOne == StringInput(<<"1">>)
TextOnePointZero == StringInput(<<"1",".","0">>)
TextOnePointZeroZero == StringInput(<<"1",".","0","0">>)
NumberOnePointZero == NumberInput(Finite(FALSE, 10, 1))

C22_CategoryDependsOnText ==
    /\ (CalledEvaluator /\ ~getOperands(input).threw) =>
          /\ InputText(input) = TextForOperands(input)
          /\ InputOperands.v = IntVal(Len(FractionDigits(TextForOperands(input))))
          /\ InputOperands.f = IntVal(ReadAsInteger(FractionDigits(TextForOperands(input))))
          /\ InputOperands.c = IntVal(getExponent(TextForOperands(input)))
    /\ (CalledGetPluralCategory /\ source = IntegerOneText) =>
          /\ input \in {TextOne, NumberOne, NumberOnePointZero} =>
                outcome.category = "one"
          /\ input \in {TextOnePointZero, TextOnePointZeroZero} =>
                outcome.category = "other"
    /\ (CalledGetPluralCategory /\ source = NumberOneText) =>
          /\ input \in {TextOne, TextOnePointZero, TextOnePointZeroZero,
                        NumberOne, NumberOnePointZero} =>
                outcome.category = "one"

C22_Witness ==
    /\ CalledGetPluralCategory
    /\ source = IntegerOneText
    /\ input = TextOnePointZero
    /\ outcome.category = "other"

-----------------------------------------------------------------------------
(* C23: samples never influence matching: rules and rule sets with the     *)
(* same conditions in the same order and different, missing or             *)
(* contradictory sample lists give the same testPluralRule and             *)
(* getPluralCategory result for every number, and the parser accepts       *)
(* sample lists that contradict the condition.                             *)

\* The tokens without the sample lists: from each marker up to the next ';'
\* or the end.
RECURSIVE WithoutSamplesFrom(_, _, _)
WithoutSamplesFrom(lexer, k, inSamples) ==
    IF k > Len(lexer) THEN <<>>
    ELSE IF lexer[k].kind \in SampleCategories
    THEN WithoutSamplesFrom(lexer, k + 1, TRUE)
    ELSE IF lexer[k].kind = ";"
    THEN <<lexer[k]>> \o WithoutSamplesFrom(lexer, k + 1, FALSE)
    ELSE IF inSamples THEN WithoutSamplesFrom(lexer, k + 1, TRUE)
    ELSE <<lexer[k]>> \o WithoutSamplesFrom(lexer, k + 1, FALSE)
WithoutSamples(lexer) == WithoutSamplesFrom(lexer, 1, FALSE)

ContradictingSamplesText == <<"n"," ","="," ","1"," ","@","i","n","t","e","g","e","r"," ","2",","," ","3"," ","@","d","e","c","i","m","a","l"," ","5",".","5">>
OtherSamplesText == <<"n"," ","="," ","9"," ","@","i","n","t","e","g","e","r"," ","7",","," ","8">>
ContradictingRuleSetText ==
    <<"o","n","e",":"," ","n"," ","="," ","1"," ","@","i","n","t","e","g","e","r"," ","2",";"," ","f","e","w",":"," ","n"," ","="," ","2"," ","@","d","e","c","i","m","a","l"," ","1",".","0",";"," ","o","t","h","e","r",":"," ","@","i","n","t","e","g","e","r"," ","1",","," ","2">>
OtherSamples == parseRule(OtherSamplesText).node.samples

\* The tree with the given samples in every rule and for 'other'.
RuleWithSamples(rule, samples) == [rule EXCEPT !.samples = samples]
RuleSetWithSamples(ruleSet, samples) ==
    [ruleSet EXCEPT
        !.rules = [k \in 1..Len(ruleSet.rules) |->
                      [ruleSet.rules[k] EXCEPT
                          !.rule = RuleWithSamples(ruleSet.rules[k].rule, samples)]],
        !.other = samples]
ConditionsOf(ruleSet) ==
    [k \in 1..Len(ruleSet.rules) |->
        <<ruleSet.rules[k].category, ruleSet.rules[k].rule.condition>>]

NumberTwo == NumberInput(Finite(FALSE, 2, 0))

C23_SamplesNeverInfluenceMatching ==
    /\ CalledTestPluralRule =>
          \A samples \in {Null, OtherSamples} :
              testPluralRule(RuleWithSamples(parsed.node, samples), input) = outcome
    /\ CalledGetPluralCategory =>
          \A samples \in {Null, OtherSamples} :
              getPluralCategory(RuleSetWithSamples(parsed.node, samples), input)
                  = outcome
    /\ (CalledParseRule /\ parsed.ok) =>
          /\ parseRuleTokens(WithoutSamples(lex(source))).ok
          /\ parseRuleTokens(WithoutSamples(lex(source))).node
                = RuleWithSamples(parsed.node, Null)
    /\ (CalledParseRuleSet /\ parsed.ok) =>
          /\ parseRuleSetTokens(WithoutSamples(lex(source))).ok
          /\ parseRuleSetTokens(WithoutSamples(lex(source))).node
                = RuleSetWithSamples(parsed.node, Null)
    /\ (CalledParseRule /\ source = ContradictingSamplesText) =>
          parsed.ok /\ parsed.node.samples # Null
    /\ (CalledParseRuleSet /\ source = ContradictingRuleSetText) =>
          parsed.ok /\ parsed.node.other # Null
    /\ (CalledTestPluralRule /\ source = ContradictingSamplesText) =>
          /\ input = NumberOne => outcome.matched
          /\ input = NumberTwo => ~outcome.matched
    /\ (CalledGetPluralCategory /\ source = ContradictingRuleSetText) =>
          /\ input = NumberOne => outcome.category = "one"
          /\ input = NumberTwo => outcome.category = "few"

C23_Witness ==
    /\ CalledTestPluralRule
    /\ source = ContradictingSamplesText
    /\ input = NumberOne
    /\ parsed.node.samples.integer.kind = "SampleList"
    /\ outcome.matched

-----------------------------------------------------------------------------
(* C24: the tokenizer takes as a numeric literal a run of digits, then an  *)
(* optional fraction, then an optional exponent: an exponent marker and a  *)
(* digit sequence whose first digit is not zero.  It emits the literal as  *)
(* one Value token whose source is the whole literal, with isInt true iff  *)
(* the literal has neither fraction nor exponent.  The markers are 'e' and *)
(* 'c'; the claim as written also names 'E'.                               *)

AllDigits(ds, from, to) == \A k \in from..to : ds[k] \in Digit

\* ds is a literal with the given exponent markers: the integer digits end
\* at a, the fraction (if any) at b.
IsLiteralText(ds, markers) ==
    \E a \in 1..Len(ds), b \in 1..Len(ds) :
        /\ a <= b
        /\ AllDigits(ds, 1, a)
        /\ \/ b = a
           \/ ds[a + 1] = "." /\ b >= a + 2 /\ AllDigits(ds, a + 2, b)
        /\ \/ b = Len(ds)
           \/ /\ ds[b + 1] \in markers
              /\ b + 2 <= Len(ds)
              /\ ds[b + 2] \in NonZeroDigit
              /\ AllDigits(ds, b + 3, Len(ds))

\* The index after the longest literal that starts at p; a literal has
\* only digits, points and markers.
Greatest(S) == CHOOSE k \in S : \A j \in S : k >= j
LongestLiteralEnd(s, p, markers) ==
    1 + Greatest({q \in p..(RunEnd(s, p, Digit \cup {"."} \cup markers) - 1) :
                      IsLiteralText(SubSeq(s, p, q), markers)})

\* The literals of a text from p on, left to right: a word is passed over
\* whole, any other character singly.
RECURSIVE LiteralsFrom(_, _, _)
LiteralsFrom(s, p, markers) ==
    IF p > Len(s) THEN <<>>
    ELSE IF s[p] \in Digit
    THEN <<SubSeq(s, p, LongestLiteralEnd(s, p, markers) - 1)>>
            \o LiteralsFrom(s, LongestLiteralEnd(s, p, markers), markers)
    ELSE IF s[p] \in Lower THEN LiteralsFrom(s, RunEnd(s, p, Lower), markers)
    ELSE LiteralsFrom(s, p + 1, markers)

RECURSIVE ValueSources(_)
ValueSources(lexer) ==
    IF lexer = <<>> THEN <<>>
    ELSE (IF Head(lexer).kind = "Value" THEN <<Head(lexer).source>> ELSE <<>>)
            \o ValueSources(Tail(lexer))

CodeExponentMarkers == {"e", "c"}
ClaimedExponentMarkers == {"e", "E", "c"}

\* The literals of the text are its Value tokens, each whole and with its
\* isInt flag, for the given exponent markers.
ValueTokensAreLiterals(markers) ==
    (CalledParseRule \/ CalledParseRuleSet) =>
        LET lexer == lex(source)
        IN  /\ \A p \in 1..Len(source) :
                source[p] \in Digit =>
                    ValueEnd(source, p) = LongestLiteralEnd(source, p, markers)
            /\ \A k \in 1..Len(lexer) :
                lexer[k].kind = "Value" =>
                    /\ IsLiteralText(lexer[k].source, markers)
                    /\ lexer[k].isInt
                          <=> AllDigits(lexer[k].source, 1, Len(lexer[k].source))
            /\ lexer = <<>> \/ lexer[Len(lexer)].kind # "LexError" =>
                    ValueSources(lexer) = LiteralsFrom(source, 1, markers)

CompactLiteralText == <<"1",".","5","c","6">>
ExponentLiteralText == <<"1","e","3">>
CapitalExponentText == <<"1","E","3">>
ZeroExponentText == <<"n"," ","="," ","1","0","c","0">>

C24_ValueTokensAreLiterals ==
    /\ ValueTokensAreLiterals(CodeExponentMarkers)
    /\ (CalledParseRule /\ source = CompactLiteralText) =>
          lex(source) = <<Token("Value", "", CompactLiteralText, FALSE)>>
    /\ (CalledParseRule /\ source = ExponentLiteralText) =>
          lex(source) = <<Token("Value", "", ExponentLiteralText, FALSE)>>
    /\ (CalledParseRule /\ source = CapitalExponentText) =>
          lex(source) = <<Token("Value", "", <<"1">>, TRUE),
                          LexErrorToken("Invalid character: E")>>
    /\ (CalledParseRule /\ source = ZeroExponentText) =>
          lex(source) = <<KindToken("n"), KindToken("="),
                          Token("Value", "", <<"1", "0">>, TRUE),
                          KindToken("c"), Token("Value", "", <<"0">>, TRUE)>>

\* C24 as claimed: 'E' too introduces an exponent.
C24_CapitalEIsAnExponentMarker == ValueTokensAreLiterals(ClaimedExponentMarkers)

C24_Witness ==
    /\ CalledParseRule
    /\ source = CompactLiteralText
    /\ lex(source)[1].kind = "Value" /\ ~lex(source)[1].isInt
    /\ parsed.error.got = lex(source)[1]

-----------------------------------------------------------------------------
(* C25: the lexer cursor protocol, for any sequence of peek, next and      *)
(* accept calls on one lexer: peek never consumes (peeks in a row return   *)
(* the same token, and the next() after them returns it too); the tokens   *)
(* next() returns are the tokens of the source in order, each once,        *)
(* however peeks are interleaved; accept(kind) returns true and advances   *)
(* by one token iff the next token has that kind, and otherwise returns    *)
(* false and leaves the cursor where it is; once the end of the input has  *)
(* been reached every later peek() and next() returns an EOF token.        *)

\* The k-th token a lexer of the source hands out: the k-th token of the
\* source, and EOF after them (a lexical error ends the tokens).
ExpectedToken(toks, k) ==
    IF k < Len(toks) \/ (k = Len(toks) /\ toks[k].kind # "LexError")
    THEN toks[k]
    ELSE EofToken

\* The token the lexer stands at: the one after those consumed.
Upcoming == ExpectedToken(lex(source), Len(consumed) + 1)

Returns(call, ops) == call.op \in ops /\ ~call.threw

CursorStep ==
    /\ lastCall'.threw =>
          /\ Len(consumed) + 1 = Len(lex(source))
          /\ lex(source)[Len(lex(source))].kind = "LexError"
          /\ consumed' = consumed
    /\ Returns(lastCall', {"peek"}) =>
          lastCall'.token = Upcoming /\ consumed' = consumed
    /\ Returns(lastCall', {"next"}) =>
          lastCall'.token = Upcoming /\ consumed' = Append(consumed, Upcoming)
    /\ (Returns(lastCall, {"peek"}) /\ lastCall'.op \in {"peek", "next"}) =>
          ~lastCall'.threw /\ lastCall'.token = lastCall.token
    /\ Returns(lastCall', {"accept"}) =>
          /\ lastCall'.result <=> Upcoming.kind = lastCall'.kind
          /\ consumed' = IF Upcoming.kind = lastCall'.kind
                         THEN Append(consumed, Upcoming)
                         ELSE consumed
    /\ \A k \in 1..Len(consumed') :
          consumed'[k] = ExpectedToken(lex(source), k)
    /\ (Returns(lastCall, {"peek", "next"}) /\ lastCall.token = EofToken
            /\ lastCall'.op \in {"peek", "next"}) =>
          ~lastCall'.threw /\ lastCall'.token = EofToken

C25_LexerCursorProtocol == [][CursorStep]_vars

C25_Witness ==
    /\ pc = "lexing"
    /\ source = <<"n", " ", "=", " ", "1">>
    /\ lastCall.op = "next" /\ lastCall.token = EofToken
    /\ consumed = <<KindToken("n"), KindToken("="),
                    Token("Value", "", <<"1">>, TRUE), EofToken>>
    /\ calls = MaxCalls


-----------------------------------------------------------------------------
(* C26: in a rule set ';' separates rules and does not end them.  Every    *)
(* ';' of a source that parses is followed by a category name and ':', so  *)
(* there is one ';' fewer than there are rules; a source whose last token  *)
(* is ';' after rules that parse on their own fails with "Expected a       *)
(* plural category; got end-of-file", as 'one: n = 1; two: n = 2;' does;   *)
(* an empty or whitespace-only source parses to the rule set with no       *)
(* categories and other = null.                                            *)

SeparatorCount(lexer) == Cardinality({k \in 1..Len(lexer) : lexer[k].kind = ";"})

\* The rules a source declares: parseSamples gives null for 'other' without
\* samples, so 'other' is counted by its name among the tokens.
DeclaresOther(lexer) ==
    \E k \in 1..Len(lexer) :
        /\ CategoryWantedAt(lexer, k)
        /\ lexer[k].kind = "PluralCategory" /\ lexer[k].name = "other"
DeclarationCount(lexer, node) ==
    Len(node.rules) + (IF DeclaresOther(lexer) THEN 1 ELSE 0)

IsBlank(src) == \A k \in 1..Len(src) : src[k] \in WhiteSpace

EmptyRuleSet == RuleSetNode(<<>>, Null)

TrailingSeparatorText == <<"o","n","e",":"," ","n"," ","="," ","1",";"," ","t","w","o",":"," ","n"," ","="," ","2",";">>
OtherTrailingSeparatorText == <<"o","t","h","e","r",":"," ","@","i","n","t","e","g","e","r"," ","1",";">>
OnlySeparatorText == <<";">>
DoubleSeparatorText == <<"o","n","e",":"," ","n"," ","="," ","1",";",";"," ","t","w","o",":"," ","n"," ","="," ","2">>
SpacesText == <<" "," "," ">>
LineBreakText == <<" ", "\n">>

C26_SemicolonSeparatesRules ==
    CalledParseRuleSet =>
        LET lexer == lex(source)
            n == Len(lexer)
        IN  /\ IsBlank(source) => parsed.ok /\ parsed.node = EmptyRuleSet
            /\ parsed.ok =>
                /\ \A k \in 1..n :
                      lexer[k].kind = ";" =>
                          /\ k > 1 /\ k < n
                          /\ CategoryWantedAt(lexer, k + 1)
                          /\ IsWordToken(peek(lexer, k + 1))
                          /\ peek(lexer, k + 2).kind = ":"
                /\ n > 0 => SeparatorCount(lexer) = DeclarationCount(lexer, parsed.node) - 1
                /\ n = 0 => parsed.node = EmptyRuleSet
            /\ (/\ n > 1
                /\ lexer[n].kind = ";"
                /\ parseRuleSetTokens(SubSeq(lexer, 1, n - 1)).ok) =>
                    /\ ~parsed.ok
                    /\ parsed.node = Null
                    /\ parsed.error = ExpectedPluralCategory(EofToken)
            /\ source \in {TrailingSeparatorText, OtherTrailingSeparatorText,
                           EndAsCategoryText} =>
                    parsed.error = ExpectedPluralCategory(EofToken)
            /\ source = OnlySeparatorText =>
                    parsed.error = ExpectedPluralCategory(KindToken(";"))
            /\ source = DoubleSeparatorText =>
                    parsed.error = ExpectedPluralCategory(KindToken(";"))
            /\ source \in {<<>>, SpacesText, LineBreakText} =>
                    parsed.ok /\ parsed.node = EmptyRuleSet

C26_Witness ==
    /\ CalledParseRuleSet
    /\ source = TrailingSeparatorText
    /\ ~parsed.ok
    /\ parsed.error = ExpectedPluralCategory(EofToken)
    /\ parseRuleSetTokens(lex(SubSeq(source, 1, Len(source) - 1))).ok


-----------------------------------------------------------------------------
(* C27: a rule needs a condition.  Where parseRule or parseRuleSet reads   *)
(* a rule body (the start of a parseRule source, or after the ':' of a new *)
(* category other than 'other') a token that is no operand makes the parse *)
(* fail with "Expected an operand (n, i, f, t, v, w, c, e); got ...", as   *)
(* for 'one:', 'one: @integer 1', and parseRule of '' or '@integer 1'; so  *)
(* every PluralRule of a parsed tree has a condition that is not null and  *)
(* holds at least one Relation.                                            *)

ExpectedOperand(token) ==
    ParseError("Expected an operand (n, i, f, t, v, w, c, e)", token)

\* The categories parseRuleSet has entered in its map before the token at j.
RulesBefore(lexer, j) ==
    IF j < 3 THEN <<>> ELSE parseRuleSetRules(SubSeq(lexer, 1, j - 2)).node.rules

\* parseRuleSet calls parseRuleBody at k: after a new category name other
\* than 'other' and its ':'.
RuleBodyWantedAt(lexer, k) ==
    /\ k >= 3
    /\ CategoryWantedAt(lexer, k - 2)
    /\ IsWordToken(peek(lexer, k - 2))
    /\ peek(lexer, k - 1).kind = ":"
    /\ CategoryOfToken(peek(lexer, k - 2)) # "other"
    /\ ~RulesHas(RulesBefore(lexer, k - 2), CategoryOfToken(peek(lexer, k - 2)))

HasCondition(rule) ==
    /\ rule.kind = "PluralRule"
    /\ rule.condition # Null
    /\ rule.condition.kind \in {"Relation", "AndCondition", "OrCondition"}
    /\ Len(Flatten(<<rule.condition>>)) >= 1
    /\ \A k \in 1..Len(Flatten(<<rule.condition>>)) :
          Flatten(<<rule.condition>>)[k].kind = "Relation"

FailedExpectingOperand(token) ==
    /\ ~parsed.ok
    /\ parsed.node = Null
    /\ parsed.error = ExpectedOperand(token)

CategoryOnlyText == <<"o","n","e",":">>
CategoryWithSamplesText == <<"o","n","e",":"," ","@","i","n","t","e","g","e","r"," ","1">>
CategoryThenSeparatorText == <<"i","s",":"," ",";"," ","o","r",":"," ","n"," ","="," ","2">>
SecondCategoryWithSamplesText == <<"o","n","e",":"," ","n"," ","="," ","1",";"," ","t","w","o",":"," ","@","i","n","t","e","g","e","r"," ","2">>
SamplesOnlyText == <<"@","i","n","t","e","g","e","r"," ","1">>
DecimalSamplesOnlyText == <<"@","d","e","c","i","m","a","l"," ","1",".","5">>

C27_RulesNeedACondition ==
    /\ CalledParseRule =>
          LET lexer == lex(source)
          IN  /\ (~Throws(lexer, 1) /\ ~isOperand(peek(lexer, 1).kind)) =>
                    FailedExpectingOperand(peek(lexer, 1))
              /\ parsed.ok => HasCondition(parsed.node)
              /\ source = <<>> => FailedExpectingOperand(EofToken)
              /\ source = SamplesOnlyText =>
                    FailedExpectingOperand(KindToken("@integer"))
              /\ source = DecimalSamplesOnlyText =>
                    FailedExpectingOperand(KindToken("@decimal"))
    /\ CalledParseRuleSet =>
          LET lexer == lex(source)
          IN  /\ \A k \in 3..(Len(lexer) + 1) :
                    (/\ RuleBodyWantedAt(lexer, k)
                     /\ ~Throws(lexer, k)
                     /\ ~isOperand(peek(lexer, k).kind)) =>
                        FailedExpectingOperand(peek(lexer, k))
              /\ parsed.ok =>
                    \A k \in 1..Len(parsed.node.rules) :
                        HasCondition(parsed.node.rules[k].rule)
              /\ source = CategoryOnlyText => FailedExpectingOperand(EofToken)
              /\ source = CategoryWithSamplesText =>
                    FailedExpectingOperand(KindToken("@integer"))
              /\ source = CategoryThenSeparatorText =>
                    FailedExpectingOperand(KindToken(";"))
              /\ source = SecondCategoryWithSamplesText =>
                    FailedExpectingOperand(KindToken("@integer"))

C27_Witness ==
    /\ CalledParseRuleSet
    /\ source = CategoryWithSamplesText
    /\ RuleBodyWantedAt(lex(source), 3)
    /\ parsed.error = ExpectedOperand(KindToken("@integer"))


-----------------------------------------------------------------------------
(* C28: impossible ranges are not detected.  A range whose start exceeds   *)
(* its end parses as any other range does ('n in 10..1' gives the Range    *)
(* 10..1), and on evaluation it contains no value: a relation whose range  *)
(* list holds only such ranges is false for every number when it is not    *)
(* negated and true for every number when it is.                           *)

IsImpossibleRange(entry) ==
    entry.kind = "Range" /\ entry.start.value > entry.end.value
OnlyImpossibleRanges(r) ==
    \A k \in 1..Len(r.ranges) : IsImpossibleRange(r.ranges[k])

\* The tokens at k, k + 1, k + 2 write a range whose start exceeds its end.
ImpossibleRangeAt(lexer, k) ==
    /\ k >= 1 /\ k + 2 <= Len(lexer)
    /\ lexer[k].kind = "Value" /\ lexer[k].isInt
    /\ lexer[k + 1].kind = ".."
    /\ lexer[k + 2].kind = "Value" /\ lexer[k + 2].isInt
    /\ DigitsToNat(lexer[k].source) > DigitsToNat(lexer[k + 2].source)

\* The tokens with the ends of every such range exchanged.
OrderRanges(lexer) ==
    [k \in 1..Len(lexer) |->
        IF ImpossibleRangeAt(lexer, k) THEN lexer[k + 2]
        ELSE IF ImpossibleRangeAt(lexer, k - 2) THEN lexer[k - 2]
        ELSE lexer[k]]

WritesImpossibleRange(lexer) ==
    \E k \in 1..Len(lexer) : ImpossibleRangeAt(lexer, k)

RangeNode(start, end) ==
    [kind |-> "Range", start |-> ValueNode(start), end |-> ValueNode(end)]

TenToOneText == <<"n"," ","i","n"," ","1","0",".",".","1">>
NotTenToOneText == <<"n"," ","n","o","t"," ","i","n"," ","1","0",".",".","1">>
WithinTenToOneText == <<"n"," ","w","i","t","h","i","n"," ","1","0",".",".","1">>
TwoImpossibleRangesText == <<"n"," ","i","n"," ","3",".",".","1",","," ","1","0",".",".","2">>
UnequalFiveToTwoText == <<"n"," ","!","="," ","5",".",".","2">>
TenToOneRuleSetText == <<"o","n","e",":"," ","n"," ","i","n"," ","1","0",".",".","1",";"," ","f","e","w",":"," ","n"," ","n","o","t"," ","i","n"," ","1","0",".",".","1">>

C28_ImpossibleRangesMatchNothing ==
    /\ CalledParseRule =>
          /\ parsed.ok = parseRuleTokens(OrderRanges(lex(source))).ok
          /\ source = TenToOneText =>
                /\ parsed.ok
                /\ parsed.node.condition.ranges = <<RangeNode(<<"1","0">>, <<"1">>)>>
                /\ ~parsed.node.condition.negated
          /\ source = NotTenToOneText =>
                /\ parsed.ok
                /\ parsed.node.condition.ranges = <<RangeNode(<<"1","0">>, <<"1">>)>>
                /\ parsed.node.condition.negated
          /\ source = TwoImpossibleRangesText =>
                /\ parsed.ok
                /\ parsed.node.condition.ranges
                      = <<RangeNode(<<"3">>, <<"1">>), RangeNode(<<"1","0">>, <<"2">>)>>
    /\ CalledParseRuleSet =>
          parsed.ok = parseRuleSetTokens(OrderRanges(lex(source))).ok
    /\ (pc = "evaluated" /\ ~getOperands(input).threw) =>
          \A r \in TreeRelations :
              /\ \A k \in 1..Len(r.ranges) :
                    IsImpossibleRange(r.ranges[k]) =>
                        ~rangeContains(r.ranges[k],
                                       evaluateExpr(r.expr, InputOperands), r.within)
              /\ OnlyImpossibleRanges(r) =>
                    testRelation(r, InputOperands) = r.negated
    /\ (CalledTestPluralRule /\ ~outcome.threw) =>
          /\ (/\ parsed.node.condition.kind = "Relation"
              /\ OnlyImpossibleRanges(parsed.node.condition)) =>
                    outcome.matched = parsed.node.condition.negated
          /\ source \in {TenToOneText, WithinTenToOneText, TwoImpossibleRangesText} =>
                ~outcome.matched
          /\ source \in {NotTenToOneText, UnequalFiveToTwoText} => outcome.matched
    /\ (CalledGetPluralCategory /\ ~outcome.threw /\ source = TenToOneRuleSetText) =>
          outcome.category = "few"

C28_Witness ==
    /\ CalledTestPluralRule
    /\ source = NotTenToOneText
    /\ input = NumberTwo
    /\ OnlyImpossibleRanges(parsed.node.condition)
    /\ ~outcome.threw /\ outcome.matched


-----------------------------------------------------------------------------
(* C29: tokenizing, parsing and evaluation terminate.  Every iteration of  *)
(* the tokenizer loop moves lastIndex forward by at least one character    *)
(* and never past the end of the source; every element a parser loop       *)
(* reads (rule body, alternative of an or chain, relation of an and chain, *)
(* entry of a range list or of a sample list) ends at least one token      *)
(* after the token it began at and no later than the end-of-file token, so *)
(* no token is read again; an evaluator call reads no node of the tree     *)
(* twice; and the tokenizer loop of every run comes to its end.            *)

\* A parse begun at token p that succeeds ends after p, within the tokens.
Advances(result, p, limit) == result.ok => (result.pos > p /\ result.pos <= limit)

ParserAdvances(lexer) ==
    \A p \in 1..(Len(lexer) + 1) :
        /\ Advances(parseRuleSetFrom(lexer, p, <<>>, Null, FALSE), p, Len(lexer) + 1)
        /\ Advances(parseRuleBody(lexer, p), p, Len(lexer) + 1)
        /\ Advances(parseCondition(lexer, p), p, Len(lexer) + 1)
        /\ Advances(parseAndCondition(lexer, p), p, Len(lexer) + 1)
        /\ Advances(parseRelation(lexer, p), p, Len(lexer) + 1)
        /\ Advances(parseExpr(lexer, p), p, Len(lexer) + 1)
        /\ Advances(parseRangeList(lexer, p), p, Len(lexer) + 1)
        /\ Advances(parseRangeItem(lexer, expectIntValue(lexer, p, "value or range")),
                    p, Len(lexer) + 1)
        /\ Advances(parseSampleList(lexer, p), p, Len(lexer) + 1)
        /\ Advances(parseSampleItem(lexer,
                        expectSampleValue(lexer, p, "sample value or sample range")),
                    p, Len(lexer) + 1)
        /\ parseSamples(lexer, p).ok =>
              /\ parseSamples(lexer, p).pos >= p
              /\ parseSamples(lexer, p).pos <= Len(lexer) + 1

\* The paths of the nodes of a condition, of a relation, of a tree.
RelationPaths(r, path) ==
    {path, path \o <<0>>} \cup {path \o <<k>> : k \in 1..Len(r.ranges)}
AndConditionPaths(c, path) ==
    IF c.kind = "Relation" THEN RelationPaths(c, path)
    ELSE {path} \cup UNION {RelationPaths(c.relations[k], path \o <<k>>) :
                               k \in 1..Len(c.relations)}
ConditionPaths(c, path) ==
    IF c.kind # "OrCondition" THEN AndConditionPaths(c, path)
    ELSE {path} \cup UNION {AndConditionPaths(c.alternatives[k], path \o <<k>>) :
                               k \in 1..Len(c.alternatives)}
TreePaths(node) ==
    IF node.kind = "PluralRule" THEN ConditionPaths(node.condition, <<>>)
    ELSE UNION {ConditionPaths(node.rules[k].rule.condition, <<k>>) :
                   k \in 1..Len(node.rules)}

VisitsOfCall ==
    IF outcome.api = "testPluralRule"
    THEN visitsCondition(parsed.node.condition, InputOperands, <<>>)
    ELSE visitsRulesFrom(parsed.node.rules, 1, InputOperands)

VisitsEachNodeOnce(visits, node) ==
    /\ \A j, k \in 1..Len(visits) : visits[j] = visits[k] => j = k
    /\ SeqRange(visits) \subseteq TreePaths(node)
    /\ Len(visits) <= Cardinality(TreePaths(node))

TokenizerStep ==
    /\ lastIndex' > lastIndex
    /\ lastIndex' <= Len(source) + 1
    /\ Len(yielded') = Len(yielded) + 1
    /\ pc = "tokenizing"

RunInBounds ==
    /\ lastIndex >= 1 /\ lastIndex <= Len(source) + 1
    /\ Len(yielded) <= Len(source)
    /\ pc = "tokenized" => yielded = lex(source)
    /\ pc = "parsed" =>
          /\ ParserAdvances(yielded)
          /\ parsed.api = "parseRule" =>
                parsed = ParseResult("parseRule", parseRule(source))
          /\ parsed.api = "parseRuleSet" =>
                parsed = ParseResult("parseRuleSet", parseRuleSet(source))
    /\ (pc = "evaluated" /\ ~getOperands(input).threw) =>
          VisitsEachNodeOnce(VisitsOfCall, parsed.node)

C29_EveryRunTerminates ==
    /\ []RunInBounds
    /\ [][TokenizerStep]_tokenVars
    /\ (pc = "tokenizing") ~> (pc = "tokenized")

LongRunText == <<"o","n","e",":"," ","n"," ","m","o","d"," ","1","0"," ","="," ","1"," ","a","n","d"," ","n"," ","!","="," ","1","1",";"," ","f","e","w",":"," ","n"," ","m","o","d"," ","1","0","0"," ","="," ","2",".",".","4">>

C29_Witness ==
    /\ pc = "evaluated"
    /\ source = LongRunText
    /\ lastIndex = Len(source) + 1
    /\ yielded = lex(source) /\ Len(yielded) = 21
    /\ input = NumberInput(Finite(FALSE, 2, 0))
    /\ outcome.category = "few"
    /\ VisitsOfCall = <<<<1>>, <<1, 1>>, <<1, 1, 0>>, <<1, 1, 1>>,
                        <<2>>, <<2, 0>>, <<2, 1>>>>


-----------------------------------------------------------------------------
(* C30: evaluation does not depend on the sign of its input.  For every    *)
(* rule or rule set and every finite number x, given as a number or as a   *)
(* text that begins with its digits, testPluralRule and getPluralCategory  *)
(* give for -x (the number negated, or the text with a leading '-') what   *)
(* they give for x, and the eight operands derived for the two are equal.  *)

\* A text that writes a number from its first character on, with or
\* without a leading minus sign.
IsUnsignedText(s) ==
    \/ CharAt(s, 1) \in Digit
    \/ CharAt(s, 1) = "." /\ CharAt(s, 2) \in Digit
IsSignedText(s) == CharAt(s, 1) = "-" /\ IsUnsignedText(Tail(s))

HasOpposite(in) ==
    IF in.type = "number" THEN NumberIsFinite(in.number)
    ELSE /\ IsUnsignedText(in.text) \/ IsSignedText(in.text)
         /\ NumberIsFinite(parseFloat(in.text))

\* The input for -x, given the input for x.
Opposite(in) ==
    IF in.type = "number"
    THEN NumberInput([in.number EXCEPT !.neg = ~in.number.neg])
    ELSE IF IsSignedText(in.text) THEN StringInput(Tail(in.text))
    ELSE StringInput(<<"-">> \o in.text)

MinusOne == NumberInput(Finite(TRUE, 1, 0))
MinusTwoText == StringInput(<<"-", "2">>)

C30_SignInsensitive ==
    /\ (pc = "evaluated" /\ HasOpposite(input)) =>
          /\ HasOpposite(Opposite(input))
          /\ Opposite(Opposite(input)) = input
          /\ ~getOperands(input).threw
          /\ getOperands(Opposite(input)) = getOperands(input)
    /\ (CalledTestPluralRule /\ HasOpposite(input)) =>
          testPluralRule(parsed.node, Opposite(input)) = outcome
    /\ (CalledGetPluralCategory /\ HasOpposite(input)) =>
          getPluralCategory(parsed.node, Opposite(input)) = outcome
    /\ (CalledTestPluralRule /\ source = <<"n", " ", "=", " ", "1">>) =>
          /\ input \in {MinusOne, TextOne} => outcome.matched
          /\ input = MinusTwoText => ~outcome.matched

C30_Witness ==
    /\ CalledTestPluralRule
    /\ source = <<"n", " ", "=", " ", "1">>
    /\ input = MinusOne
    /\ HasOpposite(input)
    /\ Opposite(input) = NumberInput(Finite(FALSE, 1, 0))
    /\ outcome.matched
    /\ testPluralRule(parsed.node, Opposite(input)).matched

=============================================================================
